---- MODULE Spec2Model ----
(***************************************************************************)
(* A model of safesql: the MySQL and Postgres template lexers, the value   *)
(* escapers and the interpolation driver of the sql / pg template tags.    *)
(*                                                                         *)
(* Text is modelled as a sequence of one-character strings.  Characters    *)
(* that TLA+ cannot write are named atoms: "NUL" (\0), "BS" (\b), "SUB"    *)
(* (\x1a) and "BT" (the backtick).  JavaScript null where a string is      *)
(* expected is the one-element sequence JsNull; the empty sequence stands  *)
(* for both null and "" where the code only tests truthiness (delimiter,   *)
(* errorMessage).                                                          *)
(* An Error message is a sequence whose first element is the fixed part of *)
(* the message and whose remaining elements are the interpolated text.     *)
(***************************************************************************)
EXTENDS Integers, Sequences, FiniteSets, TLC

VARIABLES
    dialect,     \* "mysql" | "pg": which lexer / escaper pair is in use
    lexer,       \* the closure state of the lexer instance: delimiter, errorMessage
                 \* (mysql `errorMessage`, pg replayError `message`), chunkIndex,
                 \* continuationAmbiguity; <<>> stands for null
    ret,         \* what the latest lexer call returned
    thrown,      \* the message of the Error the latest call threw (<<>> if none)
    fed,         \* the arguments of the lexer calls made so far
    pc,          \* position of the running call
    chunks,      \* the literal chunks of the template
    delimiters,  \* computeStatic's `delimiters`
    values,      \* the values interpolated so far
    options,     \* { stringifyObjects, forbidQualified }
    result,      \* interpolateSqlIntoFragment's `result` buffer
    slots,       \* per slot: the escaper used, its delimiter, its text, the text appended
    minted,      \* the texts handed to decorateOutput
    escCall,     \* a direct call of an escaper entry point and its outcome
    calls,       \* the number of calls of the tag so far
    peer,        \* a second lexer instance: its dialect, closure state, calls and latest outcome
    lastIndex,   \* CHARS_GLOBAL_REGEXP.lastIndex
    unread,      \* the `remainder` (mysql `text`) of the running lexer call
    loop,        \* the loop the running lexer call is in and its locals
    steps        \* the iterations the running lexer call has made

vars == <<dialect, lexer, ret, thrown, fed, pc, chunks, delimiters, values, options,
          result, slots, minted,
                   escCall, calls, peer, lastIndex, unread, loop, steps>>

----------------------------------------------------------------------------
(* Text helpers: the String methods the code uses.                         *)

JsNull == <<"<null>">>

Drop(s, n) == SubSeq(s, n + 1, Len(s))

Take(s, n) == SubSeq(s, 1, n)

Last(s) == s[Len(s)]

StartsWith(s, p) == Len(p) <= Len(s) /\ SubSeq(s, 1, Len(p)) = p

\* s.indexOf(p, from) with 1-based positions; 0 when there is none.
RECURSIVE IndexFrom(_, _, _)
IndexFrom(s, p, from) ==
    IF from > Len(s) - Len(p) + 1 THEN 0
    ELSE IF SubSeq(s, from, from + Len(p) - 1) = p THEN from
    ELSE IndexFrom(s, p, from + 1)

IndexOf(s, p) == IndexFrom(s, p, 1)

\* s.lastIndexOf(c) for a one-character c; 0 when there is none.
LastIndexOf(s, c) ==
    LET hits == { i \in 1..Len(s) : s[i] = c }
    IN  IF hits = {} THEN 0 ELSE CHOOSE i \in hits : \A j \in hits : i >= j

Contains(s, p) == IndexOf(s, p) > 0

RECURSIVE Flatten(_)
Flatten(ss) == IF ss = <<>> THEN <<>> ELSE Head(ss) \o Flatten(Tail(ss))

UpperLetters == <<"A","B","C","D","E","F","G","H","I","J","K","L","M",
                  "N","O","P","Q","R","S","T","U","V","W","X","Y","Z">>

LowerLetters == <<"a","b","c","d","e","f","g","h","i","j","k","l","m",
                  "n","o","p","q","r","s","t","u","v","w","x","y","z">>

Digits == {"0","1","2","3","4","5","6","7","8","9"}

Range(f) == { f[i] : i \in DOMAIN f }

LowerChar(c) ==
    IF c \in Range(UpperLetters)
    THEN LowerLetters[CHOOSE i \in 1..26 : UpperLetters[i] = c]
    ELSE c

\* A conversion that leaves upper-case letters as they are.
ToLowerCaseKeepsCase(s) == s

ToLowerCase(s) == [i \in 1..Len(s) |-> LowerChar(s[i])]

\* The character classes of the regular expressions.
WSP == {"\t", "\r", "\n", " "}

LineTerminators == {"\r", "\n"}

IdentStart == Range(UpperLetters) \cup Range(LowerLetters) \cup {"_"}

IdentChar == IdentStart \cup Digits

\* Index of the first line terminator at or after position from; 0 if none.
RECURSIVE FirstNewline(_, _)
FirstNewline(s, from) ==
    IF from > Len(s) THEN 0
    ELSE IF s[from] \in LineTerminators THEN from
    ELSE FirstNewline(s, from + 1)

\* JSON.stringify of a string.
JsonChar(c) ==
    CASE c = "\"" -> <<"\\", "\"">>
      [] c = "\\" -> <<"\\", "\\">>
      [] c = "\n" -> <<"\\", "n">>
      [] c = "\r" -> <<"\\", "r">>
      [] c = "\t" -> <<"\\", "t">>
      [] c = "BS" -> <<"\\", "b">>
      [] c = "NUL" -> <<"\\", "u", "0", "0", "0", "0">>
      [] c = "SUB" -> <<"\\", "u", "0", "0", "1", "a">>
      [] OTHER -> <<c>>

JsonStringify(s) == <<"\"">> \o Flatten([i \in 1..Len(s) |-> JsonChar(s[i])]) \o <<"\"">>

----------------------------------------------------------------------------
(* The MySQL lexer, lib/mysql-lexer.js.                                    *)

MysqlQuotes == {"'", "\"", "BT"}

\* DELIMITED_BODIES[d]: /^(?:[^d\\]|\\[\s\S]|dd)*/ ; the length of the match.
RECURSIVE MysqlBodyLen(_, _, _)
MysqlBodyLen(text, d, i) ==
    IF i >= Len(text) THEN i
    ELSE LET c == text[i + 1] IN
         IF c = "\\"
         THEN IF i + 2 <= Len(text) THEN MysqlBodyLen(text, d, i + 2) ELSE i
         ELSE IF c = d
         THEN IF i + 2 <= Len(text) /\ text[i + 2] = d
              THEN MysqlBodyLen(text, d, i + 2) ELSE i
         ELSE MysqlBodyLen(text, d, i + 1)

\* A pattern that takes every -- for the start of a line comment.
RECURSIVE MysqlPrefixLenAnyDashDash(_, _)
MysqlPrefixLenAnyDashDash(text, i) ==
    IF i >= Len(text) THEN i
    ELSE IF text[i + 1] = "-" /\ i + 2 <= Len(text) /\ text[i + 2] = "-"
    THEN IF FirstNewline(text, i + 3) > 0
         THEN MysqlPrefixLenAnyDashDash(text, FirstNewline(text, i + 3)) ELSE i
    ELSE IF text[i + 1] \in MysqlQuotes \cup {"#", "/"} THEN i
    ELSE MysqlPrefixLenAnyDashDash(text, i + 1)

\* PREFIX_BEFORE_DELIMITER: comments and runs of text that start no string;
\* the length of the match.
RECURSIVE MysqlPrefixLen(_, _)
MysqlPrefixLen(text, i) ==
    IF i >= Len(text) THEN i
    ELSE LET c == text[i + 1]
             c2 == IF i + 2 <= Len(text) THEN <<text[i + 2]>> ELSE <<>>
             c3 == IF i + 3 <= Len(text) THEN <<text[i + 3]>> ELSE <<>>
             nl == FirstNewline(text, i + (IF c = "#" THEN 2 ELSE 3))
             close == IndexFrom(text, <<"*", "/">>, i + 3)
         IN
         IF c = "-" /\ c2 = <<"-">> /\ c3 # <<>> /\ c3[1] \in WSP
         THEN \* --(?=WSP)[^\r\n]*[\r\n], else nothing matches here
              IF nl > 0 THEN MysqlPrefixLen(text, nl) ELSE i
         ELSE IF c = "#"
         THEN IF nl > 0 THEN MysqlPrefixLen(text, nl) ELSE i
         ELSE IF c = "/" /\ c2 = <<"*">>
         THEN \* /[*][\s\S]*?[*]/ , and /(?![*]) does not match
              IF close > 0 THEN MysqlPrefixLen(text, close + 1) ELSE i
         ELSE IF c \in MysqlQuotes THEN i
         ELSE MysqlPrefixLen(text, i + 1)

\* The messages "Expected <chr> at <text>" and "Expected delimiter at <text>".
MysqlExpectedMsg(chr, text) ==
    <<"Expected ">> \o JsonStringify(<<chr>>) \o <<" at ">> \o JsonStringify(text)

MysqlExpectedDelimiterMsg(text) == <<"Expected delimiter at ">> \o JsonStringify(text)

UnclosedMsg(d) == <<"Unclosed quoted string: ">> \o d

\* The while (text) loop of the lexer; returns the new delimiter or an error.
RECURSIVE MysqlScan(_, _)
MysqlScan(d, text) ==
    IF text = <<>> THEN [d |-> d, err |-> <<>>]
    ELSE LET n == IF d # <<>> THEN MysqlBodyLen(text, d[1], 0) ELSE MysqlPrefixLen(text, 0)
         IN  IF Len(text) > n
             THEN LET chr == text[n + 1] IN
                  IF d # <<>>
                  THEN IF <<chr>> = d
                       THEN MysqlScan(<<>>, Drop(text, n + 1))
                       ELSE [d |-> d, err |-> MysqlExpectedMsg(chr, text)]
                  ELSE IF chr \in MysqlQuotes
                       THEN MysqlScan(<<chr>>, Drop(text, n + 1))
                       ELSE [d |-> d, err |-> MysqlExpectedDelimiterMsg(text)]
             ELSE MysqlScan(d, Drop(text, n))

\* return delimiter, or the throw, after the while (text) loop ended with r.
MysqlReturn(st, r) ==
    IF r.err # <<>>
    THEN [st |-> [st EXCEPT !.delimiter = r.d, !.errorMessage = r.err],
          ret |-> <<>>, err |-> r.err]
    ELSE [st |-> [st EXCEPT !.delimiter = r.d], ret |-> r.d, err |-> <<>>]

\* One call of the function makeLexer returns.  st is the closure state
\* [delimiter, errorMessage]; the outcome is the new state and what the call
\* returned (ret) or threw (err).
MysqlLexer(st, text) ==
    IF st.errorMessage # <<>>
    THEN [st |-> st, ret |-> <<>>, err |-> st.errorMessage]
    ELSE IF text = JsNull /\ st.delimiter # <<>>
    THEN [st |-> [st EXCEPT !.errorMessage = UnclosedMsg(st.delimiter)],
          ret |-> <<>>, err |-> UnclosedMsg(st.delimiter)]
    ELSE MysqlReturn(st, MysqlScan(st.delimiter,
                                   IF text = JsNull THEN <<"n", "u", "l", "l">> ELSE text))

----------------------------------------------------------------------------
(* The Postgres lexer, lib/pg-lexer.js.                                    *)

\* What a handler returns, [ delimiter, remainder ], or the Error it throws.
HRet(d, rem) == [d |-> d, rem |-> rem, err |-> <<>>]

HThrow(msg) == [d |-> <<>>, rem |-> <<>>, err |-> msg]

\* The length of the match of the dollar-quote alternative of
\* TOP_LEVEL_DELIMITER at position i, [$](?:[a-zA-Z_][a-zA-Z_0-9]*)?[$]; 0 if none.
RECURSIVE IdentRunEnd(_, _)
IdentRunEnd(text, j) ==
    IF j + 1 <= Len(text) /\ text[j + 1] \in IdentChar THEN IdentRunEnd(text, j + 1) ELSE j

DollarTagLen(text, i) ==
    IF text[i] # "$" THEN 0
    ELSE LET e == IF i + 1 <= Len(text) /\ text[i + 1] \in IdentStart
                  THEN IdentRunEnd(text, i + 1) ELSE i
         IN  IF e + 1 <= Len(text) /\ text[e + 1] = "$" THEN e + 2 - i ELSE 0

\* A pattern without the alternative for -- .
TopLevelMatchLenWithoutDashDash(text, i) ==
    LET at(k) == IF i + k <= Len(text) THEN text[i + k] ELSE "<end>"
        c == at(0)
    IN  IF c = "/" /\ at(1) = "*" THEN 2
        ELSE IF DollarTagLen(text, i) > 0 THEN DollarTagLen(text, i)
        ELSE IF c \in {"U", "u"} /\ at(1) = "&" /\ at(2) = "\"" THEN 3
        ELSE IF c = "\"" THEN 1
        ELSE IF c \in {"U", "u"} /\ at(1) = "&" /\ at(2) = "'" THEN 3
        ELSE IF c \in {"E", "e", "B", "b", "X", "x"} /\ at(1) = "'" THEN 2
        ELSE IF c = "'" THEN 1
        ELSE 0

\* The length of the match of TOP_LEVEL_DELIMITER that starts at position i
\* (the alternatives in the order of the pattern); 0 if none starts there.
TopLevelMatchLen(text, i) ==
    LET at(k) == IF i + k <= Len(text) THEN text[i + k] ELSE "<end>"
        c == at(0)
    IN  IF c = "-" /\ at(1) = "-" THEN 2
        ELSE IF c = "/" /\ at(1) = "*" THEN 2
        ELSE IF DollarTagLen(text, i) > 0 THEN DollarTagLen(text, i)
        ELSE IF c \in {"U", "u"} /\ at(1) = "&" /\ at(2) = "\"" THEN 3
        ELSE IF c = "\"" THEN 1
        ELSE IF c \in {"U", "u"} /\ at(1) = "&" /\ at(2) = "'" THEN 3
        ELSE IF c \in {"E", "e", "B", "b", "X", "x"} /\ at(1) = "'" THEN 2
        ELSE IF c = "'" THEN 1
        ELSE 0

\* TOP_LEVEL_DELIMITER.exec(text): the position of the leftmost match; 0 if none.
RECURSIVE TopLevelIndexFrom(_, _)
TopLevelIndexFrom(text, i) ==
    IF i > Len(text) THEN 0
    ELSE IF TopLevelMatchLen(text, i) > 0 THEN i
    ELSE TopLevelIndexFrom(text, i + 1)

TopLevelIndex(text) == TopLevelIndexFrom(text, 1)

\* LINE_COMMENT_BODY = /^[^\r\n]*/ : the length of the match.
LineCommentBodyLen(chunk) ==
    LET nl == FirstNewline(chunk, 1) IN IF nl = 0 THEN Len(chunk) ELSE nl - 1

\* Handler '-': the delimiter is "--".
HandleLineComment(d, chunk) ==
    LET remainder == Drop(chunk, LineCommentBodyLen(chunk))
    IN  IF remainder # <<>> THEN HRet(<<>>, remainder)
        ELSE HThrow(<<"Unterminated line comment: --">> \o chunk)

\* BLOCK_COMMENT_TOKEN.exec(remainder): the position of the leftmost */ or /*.
RECURSIVE BlockTokenIndexFrom(_, _)
BlockTokenIndexFrom(remainder, i) ==
    IF i > Len(remainder) - 1 THEN 0
    ELSE IF SubSeq(remainder, i, i + 1) \in {<<"*", "/">>, <<"/", "*">>} THEN i
    ELSE BlockTokenIndexFrom(remainder, i + 1)

BlockTokenIndex(remainder) == BlockTokenIndexFrom(remainder, 1)

\* A loop that ends the comment at the first */ whatever the depth.
BlockCommentLoopFirstClose(remainder, depth) ==
    IF IndexOf(remainder, <<"*", "/">>) = 0 THEN [depth |-> depth, rem |-> <<>>]
    ELSE [depth |-> 0, rem |-> Drop(remainder, IndexOf(remainder, <<"*", "/">>) + 1)]

\* The while (remainder) loop of handler '*'.
RECURSIVE BlockCommentLoop(_, _)
BlockCommentLoop(remainder, depth) ==
    IF remainder = <<>> THEN [depth |-> depth, rem |-> remainder]
    ELSE LET i == BlockTokenIndex(remainder) IN
         IF i = 0 THEN [depth |-> depth, rem |-> remainder]
         ELSE IF SubSeq(remainder, i, i + 1) = <<"/", "*">>
         THEN BlockCommentLoop(Drop(remainder, i + 1), depth + 1)
         ELSE IF depth - 1 = 0
         THEN [depth |-> 0, rem |-> Drop(remainder, i + 1)]
         ELSE BlockCommentLoop(Drop(remainder, i + 1), depth - 1)

\* Handler '*': the delimiter is "/*".
HandleBlockComment(d, chunk) ==
    LET r == BlockCommentLoop(chunk, Len(d) \div 2)
    IN  IF r.depth # 0 THEN HThrow(<<"Unterminated block comment: /*">> \o chunk)
        ELSE HRet(<<>>, r.rem)

\* STRING_BODIES: which delimiters have a body pattern, and whether the
\* pattern is an ESC_ one (backslash escapes) or a SIMPLE_ one.
StringBodyKeys == { <<"\"">>, <<"u", "&", "\"">>, <<"'">>, <<"b", "'">>, <<"e", "'">>,
                    <<"u", "&", "'">>, <<"x", "'">> }

IsEscBody(d) == d \in { <<"u", "&", "\"">>, <<"e", "'">>, <<"u", "&", "'">> }

\* The part of a string body pattern before the optional closing quote,
\* (?:[^q\\]|qq|\\.)* or (?:[^q]|qq)* : the length of the match.
RECURSIVE PgBodyLen(_, _, _, _)
PgBodyLen(text, q, esc, i) ==
    IF i >= Len(text) THEN i
    ELSE LET c == text[i + 1] IN
         IF c = q
         THEN IF i + 2 <= Len(text) /\ text[i + 2] = q
              THEN PgBodyLen(text, q, esc, i + 2) ELSE i
         ELSE IF esc /\ c = "\\"
         THEN IF i + 2 <= Len(text) /\ text[i + 2] \notin LineTerminators
              THEN PgBodyLen(text, q, esc, i + 2) ELSE i
         ELSE PgBodyLen(text, q, esc, i + 1)

IncompleteEscapeMsg(d, chunk) ==
    <<"Incomplete escape sequence in ">> \o d \o <<" delimited string at ", "BT">>
        \o chunk \o <<"BT">>

NoPatternMsg(d) == <<"TypeError: no string body pattern for ">> \o d

\* Handlers that return the open context, and drop the text, where the
\* body pattern matched nothing.
HandleQuotedKeepsOpen(d, chunk, closedTo) ==
    IF d \notin StringBodyKeys THEN HThrow(NoPatternMsg(d))
    ELSE IF PgBodyLen(chunk, Last(d), IsEscBody(d), 0) < Len(chunk)
            /\ chunk[PgBodyLen(chunk, Last(d), IsEscBody(d), 0) + 1] = Last(d)
    THEN HRet(closedTo, Drop(chunk, PgBodyLen(chunk, Last(d), IsEscBody(d), 0) + 1))
    ELSE IF PgBodyLen(chunk, Last(d), IsEscBody(d), 0) > 0
    THEN HRet(d, Drop(chunk, PgBodyLen(chunk, Last(d), IsEscBody(d), 0)))
    ELSE HRet(d, <<>>)

\* Handlers '"' and '\'': closedTo is the delimiter returned when the body
\* is closed.
HandleQuoted(d, chunk, closedTo) ==
    IF d \notin StringBodyKeys THEN HThrow(NoPatternMsg(d))
    ELSE LET q == Last(d)
             n == PgBodyLen(chunk, q, IsEscBody(d), 0)
             closed == n < Len(chunk) /\ chunk[n + 1] = q
             m0 == IF closed THEN n + 1 ELSE n
         IN  IF closed THEN HRet(closedTo, Drop(chunk, m0))
             ELSE IF m0 > 0 THEN HRet(d, Drop(chunk, m0))
             ELSE HThrow(IncompleteEscapeMsg(d, chunk))

HandleDq(d, chunk) == HandleQuoted(d, chunk, <<>>)

EscContinuation == <<"e">>

HandleSq(d, chunk) ==
    HandleQuoted(d, chunk,
                 IF d = <<"e", "'">> \/ d = <<"E", "'">> THEN EscContinuation ELSE <<>>)

MergeHazardMsg(suffix, d) ==
    <<"merge hazard '">> \o suffix \o <<"' at end of ">> \o d \o <<" delimited string">>

\* Handler '$': the delimiter is the opening tag, $tag$.
HandleDollar(d, chunk) ==
    LET i == IndexOf(chunk, d)
        lastDollar == LastIndexOf(chunk, "$")
        suffix == Drop(chunk, lastDollar - 1)
    IN  IF i > 0 THEN HRet(<<>>, Drop(chunk, i - 1 + Len(d)))
        ELSE IF lastDollar > 0 /\ StartsWith(d, suffix) THEN HThrow(MergeHazardMsg(suffix, d))
        ELSE HRet(d, <<>>)

\* ESC_STRING_CONTINUATION = /^[\t\n\r ]*([/][*]|--|')?/
RECURSIVE WsRunLen(_, _)
WsRunLen(text, i) ==
    IF i + 1 <= Len(text) /\ text[i + 1] \in {"\t", "\n", "\r", " "}
    THEN WsRunLen(text, i + 1) ELSE i

EscContinuationSubdelim(rest) ==
    IF StartsWith(rest, <<"/", "*">>) THEN <<"/", "*">>
    ELSE IF StartsWith(rest, <<"-", "-">>) THEN <<"-", "-">>
    ELSE IF StartsWith(rest, <<"'">>) THEN <<"'">>
    ELSE <<>>

NoHandlerMsg(d) == <<"TypeError: handler is not a function for ">> \o d

RECURSIVE Handler(_, _)
RECURSIVE HandleEsc(_, _)
RECURSIVE EscInnerLoop(_, _)
RECURSIVE EscInnerAssign(_)
RECURSIVE HandleEscAssign(_, _)

\* The inner while (remainder && subdelim) loop of handler 'e'.
EscInnerLoop(subdelim, remainder) ==
    IF remainder # <<>> /\ subdelim # <<>>
    THEN EscInnerAssign(Handler(subdelim, remainder))
    ELSE HRet(subdelim, remainder)

\* [ subdelim, remainder ] = handler(subdelim, remainder), h being what the
\* handler returned or threw, and the next pass of the inner loop.
EscInnerAssign(h) == IF h.err # <<>> THEN h ELSE EscInnerLoop(h.d, h.rem)

\* The outer loop of handler 'e' goes on after the inner loop ended with h.
HandleEscAssign(d, h) == IF h.err # <<>> THEN h ELSE HandleEsc(d, h.rem)

\* Handler 'e': after a closed e'...' string, the while (remainder) loop.
HandleEsc(d, remainder) ==
    IF remainder = <<>> THEN HRet(d, remainder)
    ELSE LET w == WsRunLen(remainder, 0)
             subdelim == EscContinuationSubdelim(Drop(remainder, w))
             consumed == w + Len(subdelim)
             rest == Drop(remainder, consumed)
         IN  IF consumed = 0 THEN HRet(<<>>, remainder)
             ELSE IF subdelim = <<>> THEN HandleEsc(d, rest)
             ELSE IF subdelim = <<"'">> THEN HRet(<<"e", "'">>, rest)
             ELSE HandleEscAssign(d, EscInnerLoop(subdelim, rest))

\* LAST_DELIMITER_CHARACTER_TO_HANDLER[lastChar](delimiter, chunk)
Handler(d, chunk) ==
    LET lastChar == Last(d) IN
    CASE lastChar = "-" -> HandleLineComment(d, chunk)
      [] lastChar = "*" -> HandleBlockComment(d, chunk)
      [] lastChar = "\"" -> HandleDq(d, chunk)
      [] lastChar = "'" -> HandleSq(d, chunk)
      [] lastChar = "$" -> HandleDollar(d, chunk)
      [] lastChar = "e" -> HandleEsc(d, chunk)
      [] OTHER -> HThrow(NoHandlerMsg(d))

HasNonWs(text) == \E i \in 1..Len(text) : text[i] \notin {"\t", "\n", "\r", " "}

\* if (lastChar !== '*' && lastChar !== '-') continuationAmbiguity = false
ResetAmbiguity(st, lastChar) ==
    IF lastChar # "*" /\ lastChar # "-"
    THEN [st EXCEPT !.continuationAmbiguity = FALSE] ELSE st

\* [ delimiter, remainder ] = handler(delimiter, remainder), h being what
\* the handler returned or threw.
ConsumeAssign(st, h) ==
    IF h.err # <<>> THEN [st |-> st, rem |-> <<>>, err |-> h.err]
    ELSE [st |-> [st EXCEPT !.delimiter = h.d], rem |-> h.rem, err |-> <<>>]

\* consumeFromLeft(remainder) on the closure state st; the outcome is the
\* new state, the remainder it returns and the message of what it throws.
ConsumeFromLeft(st, remainder) ==
    IF st.delimiter # <<>>
    THEN ConsumeAssign(ResetAmbiguity(st, Last(st.delimiter)),
                       Handler(st.delimiter, remainder))
    ELSE LET i == TopLevelIndex(remainder)
             end == IF i > 0 THEN i - 1 ELSE Len(remainder)
             st1 == IF st.continuationAmbiguity /\ HasNonWs(Take(remainder, end))
                    THEN [st EXCEPT !.continuationAmbiguity = FALSE] ELSE st
             found == SubSeq(remainder, i, i + TopLevelMatchLen(remainder, i) - 1)
             d == IF found[1] # "$" THEN ToLowerCase(found) ELSE found
         IN  IF i = 0 THEN [st |-> st1, rem |-> <<>>, err |-> <<>>]
             ELSE [st |-> [st1 EXCEPT !.delimiter = d],
                   rem |-> Drop(remainder, i - 1 + Len(d)), err |-> <<>>]

\* The while (remainder) loop of lexer(chunk).
RECURSIVE PgScan(_, _)
RECURSIVE PgScanAssign(_)
PgScan(st, remainder) ==
    IF remainder = <<>> THEN [st |-> st, err |-> <<>>]
    ELSE PgScanAssign(ConsumeFromLeft(st, remainder))

\* remainder = consumeFromLeft(remainder), r being the outcome of the call.
PgScanAssign(r) ==
    IF r.err # <<>> THEN [st |-> r.st, err |-> r.err] ELSE PgScan(r.st, r.rem)

AmbiguousContinuationMsg ==
    <<"Potential for ambiguous string continuation at ", "BT", "${ chunk }", "BT",
      ".  If you need string continuation start with an e'...' string.">>

\* /[\n\r]/.test(chunk)
HasNewline(chunk) == \E i \in 1..Len(chunk) : chunk[i] \in LineTerminators

\* return delimiter, after the while (remainder) loop ended with r.
PgLexerReturn(r) ==
    IF r.err # <<>> THEN [st |-> r.st, ret |-> <<>>, err |-> r.err]
    ELSE [st |-> r.st, ret |-> r.st.delimiter, err |-> <<>>]

\* lexer(chunk) for a chunk that is not null, st having the chunkIndex
\* already incremented.
PgLexerChunk(st, chunk) ==
    IF st.continuationAmbiguity /\ st.chunkIndex > 1
    THEN [st |-> st, ret |-> <<>>, err |-> AmbiguousContinuationMsg]
    ELSE PgLexerReturn(PgScan([st EXCEPT !.continuationAmbiguity = HasNewline(chunk)],
                              chunk))

\* lexer(chunk), the function replayError wraps.
PgLexerFun(st, chunk) ==
    IF chunk = JsNull
    THEN IF st.delimiter # <<>> /\ st.delimiter # EscContinuation
         THEN [st |-> st, ret |-> <<>>, err |-> UnclosedMsg(st.delimiter)]
         ELSE [st |-> st, ret |-> st.delimiter, err |-> <<>>]
    ELSE PgLexerChunk([st EXCEPT !.chunkIndex = st.chunkIndex + 1], chunk)

\* The try / catch of replayError: r is the outcome of fun(...args).
ReplayCatch(r) == IF r.err # <<>> THEN [r EXCEPT !.st.errorMessage = r.err] ELSE r

\* A wrapper that calls the function again after it has thrown.
ReplayErrorForgets(st, chunk) == ReplayCatch(PgLexerFun(st, chunk))
\* replayError(fun): one call of the function makeLexer returns.
ReplayError(st, chunk) ==
    IF st.errorMessage # <<>>
    THEN [st |-> st, ret |-> <<>>, err |-> st.errorMessage]
    ELSE ReplayCatch(PgLexerFun(st, chunk))

PgLexer(st, chunk) == ReplayError(st, chunk)

----------------------------------------------------------------------------
(* A lexer instance: makeLexer() of either dialect and a call of the       *)
(* function it returns.                                                    *)

MakeLexer ==
    [delimiter |-> <<>>, errorMessage |-> <<>>, chunkIndex |-> -1,
     continuationAmbiguity |-> FALSE]

LexerCall(d, st, chunk) == IF d = "mysql" THEN MysqlLexer(st, chunk) ELSE PgLexer(st, chunk)

\* No lexer call is running: the locals of the loops are out of scope.
NoLoop == [at |-> "none", depth |-> 0, chunk |-> <<>>, subdelim |-> <<>>, from |-> "none"]

----------------------------------------------------------------------------
(* Values.  A value is a record [t, s, n, elems, sql]:                     *)
(*   t = "null" | "undefined" | "bool" (n = 1 is true) | "num" (the       *)
(*     integer n, or the number named in s) | "date" | "fn" | "str"        *)
(*     | "frag" (a minted SqlFragment, content s) | "id" (a minted SqlId,  *)
(*     content s) | "buf" (a Buffer; s holds one character per byte)       *)
(*     | "series" (an Array of elems) | "obj" (an object whose toString()  *)
(*     returns s, whose toSqlString(), if sql is not empty, returns sql,   *)
(*     and whose enumerable keys are elems, each a "prop" record with the  *)
(*     key in s and the value in elems[1]).                                *)

Val(t, s, n, elems, sql) == [t |-> t, s |-> s, n |-> n, elems |-> elems, sql |-> sql]
VNull == Val("null", <<>>, 0, <<>>, <<>>)
VBool(b) == Val("bool", <<>>, IF b THEN 1 ELSE 0, <<>>, <<>>)
VNum(n) == Val("num", <<>>, n, <<>>, <<>>)
\* undefined, and the numbers that are no integers: NaN, Infinity, -Infinity
\* and negative zero, each named in s.
VUndefined == Val("undefined", <<>>, 0, <<>>, <<>>)
VNumber(name) == Val("num", <<name>>, 0, <<>>, <<>>)
VStr(s) == Val("str", s, 0, <<>>, <<>>)
VFrag(s) == Val("frag", s, 0, <<>>, <<>>)
VId(s) == Val("id", s, 0, <<>>, <<>>)
VBuf(s) == Val("buf", s, 0, <<>>, <<>>)
\* A Buffer of the bytes s with a toString method of its own that returns str.
VBufOwnToString(s, str) ==
    [t |-> "buf", s |-> s, n |-> 0, elems |-> <<>>, sql |-> <<>>, own |-> str]
\* What the toString method of the buffer itself returns, <<>> if it has none.
OwnToString(buffer) == IF "own" \in DOMAIN buffer THEN buffer.own ELSE <<>>
VSeries(elems) == Val("series", <<>>, 0, elems, <<>>)
VProp(key, v) == Val("prop", key, 0, <<v>>, <<>>)
VObj(str, props, sql) == Val("obj", str, 0, props, sql)
\* A Date: the instant is ms milliseconds into day n after 1970-01-01 UTC, and
\* zone is the offset in minutes of the host's zone from UTC at that instant
\* (what the local getters of the Date add).
VDate(days, ms, zone) ==
    [t |-> "date", s |-> <<>>, n |-> days, elems |-> <<>>, sql |-> <<>>,
     ms |-> ms, zone |-> zone, valid |-> TRUE]
\* new Date(NaN)
InvalidDate ==
    [t |-> "date", s |-> <<>>, n |-> 0, elems |-> <<>>, sql |-> <<>>,
     ms |-> 0, zone |-> 0, valid |-> FALSE]
\* The timeZone argument when it is undefined, and the timeZone of the
\* options of a tag, undefined unless the options have one.
NoTimeZone == <<>>
TimeZoneOf(opts) == IF "timeZone" \in DOMAIN opts THEN opts.timeZone ELSE NoTimeZone
\* A function whose source text is src.
VFn(src) == Val("fn", src, 0, <<>>, <<>>)

HexDigits == <<"0", "1", "2", "3", "4", "5", "6", "7", "8", "9", "a", "b", "c", "d", "e", "f">>

RECURSIVE NatToString(_)
NatToString(n) ==
    IF n < 10 THEN <<HexDigits[n + 1]>> ELSE NatToString(n \div 10) \o <<HexDigits[(n % 10) + 1]>>

\* A conversion that keeps the sign of negative zero.
NumberToStringSignedZero(v) ==
    CASE v.s = <<"NaN">> -> <<"N", "a", "N">>
      [] v.s = <<"Infinity">> -> <<"I", "n", "f", "i", "n", "i", "t", "y">>
      [] v.s = <<"-Infinity">> -> <<"-", "I", "n", "f", "i", "n", "i", "t", "y">>
      [] v.s = <<"-0">> -> <<"-", "0">>
      [] OTHER -> IF v.n < 0 THEN <<"-">> \o NatToString(0 - v.n) ELSE NatToString(v.n)

\* `${ val }` and String(val) of a number: the host's conversion.
NumberToString(v) ==
    CASE v.s = <<"NaN">> -> <<"N", "a", "N">>
      [] v.s = <<"Infinity">> -> <<"I", "n", "f", "i", "n", "i", "t", "y">>
      [] v.s = <<"-Infinity">> -> <<"-", "I", "n", "f", "i", "n", "i", "t", "y">>
      [] v.s = <<"-0">> -> <<"0">>
      [] OTHER -> IF v.n < 0 THEN <<"-">> \o NatToString(0 - v.n) ELSE NatToString(v.n)

Join(ss, sep) == Flatten([i \in 1..Len(ss) |-> IF i = 1 THEN ss[i] ELSE sep \o ss[i]])

\* An escaper that trusts an object's toSqlString method when it has one.
toSqlStringIfAny(val) == IF val.sql # <<>> THEN val.sql ELSE val.s

\* val.toString() of a plain object: the text its own toString method returns
\* (s); the text its toSqlString method would return (sql) is not consulted.
toString(val) == val.s

RECURSIVE JsString(_)
JsString(v) ==
    CASE v.t = "null" -> <<"n", "u", "l", "l">>
      [] v.t = "bool" -> IF v.n = 1 THEN <<"t", "r", "u", "e">> ELSE <<"f", "a", "l", "s", "e">>
      [] v.t = "undefined" -> <<"u", "n", "d", "e", "f", "i", "n", "e", "d">>
      [] v.t = "num" -> NumberToString(v)
      [] v.t = "series" ->
            Join([i \in 1..Len(v.elems) |->
                     IF v.elems[i].t \in {"null", "undefined"} THEN <<>>
                     ELSE JsString(v.elems[i])], <<",">>)
      [] v.t = "obj" -> toString(v)
      [] v.t = "buf" -> IF OwnToString(v) # <<>> THEN OwnToString(v) ELSE v.s
      [] OTHER -> v.s

Ascii ==
    <<" ", "!", "\"", "#", "$", "%", "&", "'", "(", ")", "*", "+", ",", "-", ".", "/",
      "0", "1", "2", "3", "4", "5", "6", "7", "8", "9", ":", ";", "<", "=", ">", "?",
      "@", "A", "B", "C", "D", "E", "F", "G", "H", "I", "J", "K", "L", "M", "N", "O",
      "P", "Q", "R", "S", "T", "U", "V", "W", "X", "Y", "Z", "[", "\\", "]", "^", "_",
      "BT", "a", "b", "c", "d", "e", "f", "g", "h", "i", "j", "k", "l", "m", "n", "o",
      "p", "q", "r", "s", "t", "u", "v", "w", "x", "y", "z", "{", "|", "}", "~">>

CharCode(c) ==
    CASE c = "NUL" -> 0 [] c = "BS" -> 8 [] c = "\t" -> 9 [] c = "\n" -> 10
      [] c = "\r" -> 13 [] c = "SUB" -> 26
      [] OTHER -> 31 + (CHOOSE i \in 1..Len(Ascii) : Ascii[i] = c)

BufferHex(s) ==
    Flatten([i \in 1..Len(s) |->
        <<HexDigits[(CharCode(s[i]) \div 16) + 1], HexDigits[(CharCode(s[i]) % 16) + 1]>>])

IsSeries(val) == val.t = "series"

\* The elements of a series at every depth: the values the callback that
\* escapeSeries applies to each element may be called with.
RECURSIVE Elements(_)
Elements(series) ==
    Range(series)
        \cup UNION { Elements(series[i].elems) : i \in { k \in 1..Len(series) : IsSeries(series[k]) } }

R(text) == [out |-> text, err |-> <<>>]
Throw(msg) == [out |-> <<>>, err |-> msg]

\* An escapeSeries that calls itself with nests unset for an inner sequence.
RECURSIVE EscapeSeriesOneLevel(_, _, _)
EscapeSeriesOneLevel(series, escapeOne, nests) ==
    IF series = <<>> THEN R(<<>>)
    ELSE LET n == Len(series)
             val == series[n]
             sep == IF n > 1 THEN <<",", " ">> ELSE <<>>
             init == EscapeSeriesOneLevel(Take(series, n - 1), escapeOne, nests)
         IN  IF init.err # <<>> THEN init
             ELSE IF nests /\ IsSeries(val)
             THEN LET inner == EscapeSeriesOneLevel(val.elems, escapeOne, FALSE)
                  IN  IF inner.err # <<>> THEN inner
                      ELSE R(init.out \o sep \o <<"(">> \o inner.out \o <<")">>)
             ELSE LET one == escapeOne[val]
                  IN  IF one.err # <<>> THEN one ELSE R(init.out \o sep \o one.out)

RECURSIVE EscapeSeries(_, _, _)
EscapeSeries(series, escapeOne, nests) ==
    IF series = <<>> THEN R(<<>>)
    ELSE LET n == Len(series)
             val == series[n]
             sep == IF n > 1 THEN <<",", " ">> ELSE <<>>
             init == EscapeSeries(Take(series, n - 1), escapeOne, nests)
         IN  IF init.err # <<>> THEN init
             ELSE IF nests /\ IsSeries(val)
             THEN LET inner == EscapeSeries(val.elems, escapeOne, TRUE)
                  IN  IF inner.err # <<>> THEN inner
                      ELSE R(init.out \o sep \o <<"(">> \o inner.out \o <<")">>)
             ELSE LET one == escapeOne[val]
                  IN  IF one.err # <<>> THEN one ELSE R(init.out \o sep \o one.out)

\* A bufferToString that calls the toString method of the buffer.
BufferToStringOwnMethod(buffer) ==
    <<"X", "'">>
        \o (IF OwnToString(buffer) # <<>> THEN OwnToString(buffer) ELSE BufferHex(buffer.s))
        \o <<"'">>

\* apply(bufferProtoToString, buffer, [ 'hex' ]) reads the bytes, whatever
\* toString method the buffer has.
BufferToString(buffer) == <<"X", "'">> \o BufferHex(buffer.s) \o <<"'">>

CHARS_GLOBAL_REGEXP == {"NUL", "BS", "\t", "\n", "\r", "SUB", "\"", "'", "\\", "$"}

\* A replacement that leaves a backslash as it is.
ReplaceCharsButBackslash(str, escapeMap) ==
    Flatten([i \in 1..Len(str) |->
        IF str[i] \in CHARS_GLOBAL_REGEXP \ {"\\"} THEN escapeMap[str[i]] ELSE <<str[i]>>])

\* The loop over CHARS_GLOBAL_REGEXP.exec(str): every character of the
\* pattern is replaced by its entry in the escape map.
ReplaceChars(str, escapeMap) ==
    Flatten([i \in 1..Len(str) |->
        IF str[i] \in CHARS_GLOBAL_REGEXP THEN escapeMap[str[i]] ELSE <<str[i]>>])

\* A replacement with a pattern that lacks the g flag.
ReplaceFirst(str, c, by) ==
    Flatten([i \in 1..Len(str) |->
        IF str[i] = c /\ (\A j \in 1..(i - 1) : str[j] # c) THEN by ELSE <<str[i]>>])

\* String.prototype.replace with a global pattern for one character
ReplaceAll(str, c, by) == Flatten([i \in 1..Len(str) |-> IF str[i] = c THEN by ELSE <<str[i]>>])

ExpectedIdMsg(content) == <<"Expected id, got ">> \o content

(* The quoted-identifier patterns MYSQL_ID_REGEXP, MYSQL_QUAL_ID_REGEXP,   *)
(* PG_ID_REGEXP and PG_QUAL_ID_REGEXP as one automaton: q is the quote,   *)
(* prefixes the letters that may start a u&" identifier, qualified whether *)
(* dot-joined identifiers are accepted.                                    *)
RECURSIVE IdPattern(_, _, _, _, _, _, _)
IdPattern(str, i, state, esc, q, prefixes, qualified) ==
    IF i > Len(str) THEN state = "q"
    ELSE LET c == str[i]
             next(st, e, k) == IdPattern(str, k, st, e, q, prefixes, qualified)
         IN  CASE state = "start" ->
                    IF c = q THEN next("b0", FALSE, i + 1)
                    ELSE /\ c \in prefixes
                         /\ i + 2 <= Len(str)
                         /\ str[i + 1] = "&"
                         /\ str[i + 2] = q
                         /\ next("b0", TRUE, i + 3)
               [] state \in {"b0", "b"} ->
                    IF c = q THEN next(IF state = "b0" THEN "q0" ELSE "q", esc, i + 1)
                    ELSE IF esc /\ c = "\\" THEN next("e", esc, i + 1)
                    ELSE next("b", esc, i + 1)
               [] state = "q0" -> c = q /\ next("b", esc, i + 1)
               [] state = "q" ->
                    IF c = q THEN next("b", esc, i + 1)
                    ELSE c = "." /\ qualified /\ next("start", FALSE, i + 1)
               [] state = "e" -> c \notin LineTerminators /\ next("b", esc, i + 1)

\* A pattern for a single identifier that lets dot-joined ones through.
MYSQL_ID_REGEXP_WITH_DOTS(content) == IdPattern(content, 1, "start", FALSE, "BT", {}, TRUE)

MYSQL_ID_REGEXP(content) == IdPattern(content, 1, "start", FALSE, "BT", {}, FALSE)
MYSQL_QUAL_ID_REGEXP(content) == IdPattern(content, 1, "start", FALSE, "BT", {}, TRUE)
PG_ID_REGEXP(content) == IdPattern(content, 1, "start", FALSE, "\"", {"u", "U"}, FALSE)
PG_QUAL_ID_REGEXP(content) == IdPattern(content, 1, "start", FALSE, "\"", {"u"}, TRUE)

----------------------------------------------------------------------------
(* The MySQL escaper.                                                      *)

MYSQL_CHARS_ESCAPE_MAP ==
    [c \in CHARS_GLOBAL_REGEXP |->
        CASE c = "NUL" -> <<"\\", "0">>
          [] c = "BS" -> <<"\\", "b">>
          [] c = "\t" -> <<"\\", "t">>
          [] c = "\n" -> <<"\\", "n">>
          [] c = "\r" -> <<"\\", "r">>
          [] c = "SUB" -> <<"\\", "Z">>
          [] c = "\"" -> <<"\\", "\"">>
          [] c = "$" -> <<"\\", "$">>
          [] c = "'" -> <<"\\", "'">>
          [] c = "\\" -> <<"\\", "\\">>]

RECURSIVE MysqlEscapeId(_, _)
MysqlEscapeId(val, forbidQualified) ==
    IF val.t = "frag"
    THEN IF (IF forbidQualified THEN MYSQL_ID_REGEXP(val.s) ELSE MYSQL_QUAL_ID_REGEXP(val.s))
         THEN R(val.s)
         ELSE Throw(ExpectedIdMsg(val.s))
    ELSE IF IsSeries(val)
    THEN EscapeSeries(val.elems,
                      [element \in Range(val.elems) |-> MysqlEscapeId(element, forbidQualified)],
                      FALSE)
    ELSE LET doubled == ReplaceAll(JsString(val), "BT", <<"BT", "BT">>)
         IN  IF forbidQualified
             THEN R(<<"BT">> \o doubled \o <<"BT">>)
             ELSE R(<<"BT">> \o ReplaceAll(doubled, ".", <<"BT", ".", "BT">>) \o <<"BT">>)

MysqlEscapeString(val) ==
    <<"'">> \o ReplaceChars(JsString(val), MYSQL_CHARS_ESCAPE_MAP) \o <<"'">>

(* String.prototype.replace with /^q|q$/g or PG_ID_DELIMS_REGEXP: drop an  *)
(* opening delimiter at the start and a quote at the end.                  *)
StripDelims(str, q, prefixes) ==
    LET open == IF str # <<>> /\ str[1] = q THEN 1
                ELSE IF Len(str) >= 3 /\ str[1] \in prefixes /\ str[2] = "&" /\ str[3] = q THEN 3
                ELSE 0
        rest == Drop(str, open)
    IN  IF rest # <<>> /\ Last(rest) = q THEN Take(rest, Len(rest) - 1) ELSE rest

----------------------------------------------------------------------------
(* The Postgres escaper.                                                   *)

PG_E_CHARS_ESCAPE_MAP ==
    [c \in CHARS_GLOBAL_REGEXP |->
        CASE c = "NUL" -> <<"\\", "x", "0", "0">>
          [] c = "BS" -> <<"\\", "b">>
          [] c = "\t" -> <<"\\", "t">>
          [] c = "\n" -> <<"\\", "n">>
          [] c = "\r" -> <<"\\", "r">>
          [] c = "SUB" -> <<"\\", "x", "1", "a">>
          [] c = "\"" -> <<"\\", "\"">>
          [] c = "$" -> <<"\\", "$">>
          [] c = "'" -> <<"'", "'">>
          [] c = "\\" -> <<"\\", "\\">>]

PG_U_CHARS_ESCAPE_MAP ==
    [c \in CHARS_GLOBAL_REGEXP |->
        CASE c = "NUL" -> <<"\\", "0", "0", "0", "0">>
          [] c = "BS" -> <<"\\", "0", "0", "0", "8">>
          [] c = "\t" -> <<"\\", "0", "0", "0", "9">>
          [] c = "\n" -> <<"\\", "0", "0", "0", "a">>
          [] c = "\r" -> <<"\\", "0", "0", "0", "d">>
          [] c = "SUB" -> <<"\\", "0", "0", "1", "a">>
          [] c = "\"" -> <<"\\", "0", "0", "2", "2">>
          [] c = "$" -> <<"\\", "0", "0", "2", "4">>
          [] c = "'" -> <<"\\", "0", "0", "2", "7">>
          [] c = "\\" -> <<"\\", "0", "0", "5", "c">>]

HEX_TO_BINARY_TABLE(digit) ==
    LET v == IF digit \in Digits THEN CharCode(digit) - 48
             ELSE IF digit \in {"a", "b", "c", "d", "e", "f"} THEN CharCode(digit) - 87
             ELSE CharCode(digit) - 55
        bit(k) == IF (v \div k) % 2 = 1 THEN "1" ELSE "0"
    IN  <<bit(8), bit(4), bit(2), bit(1)>>

hexToBinary(str) ==
    Flatten([i \in 1..Len(str) |->
        IF str[i] \in Digits \cup {"a", "b", "c", "d", "e", "f", "A", "B", "C", "D", "E", "F"}
        THEN HEX_TO_BINARY_TABLE(str[i]) ELSE <<str[i]>>])

PgEscapeStringBody(str, escapeMap) == ReplaceChars(str, escapeMap)

RECURSIVE PgEscapeId(_, _, _)
PgEscapeId(val, forbidQualified, unicode) ==
    IF val.t = "frag"
    THEN IF (IF forbidQualified THEN PG_ID_REGEXP(val.s) ELSE PG_QUAL_ID_REGEXP(val.s))
         THEN R(val.s)
         ELSE Throw(ExpectedIdMsg(val.s))
    ELSE IF IsSeries(val)
    THEN EscapeSeries(val.elems,
                      [element \in Range(val.elems) |->
                          PgEscapeId(element, forbidQualified, unicode)],
                      FALSE)
    ELSE LET escaped == IF unicode
                        THEN PgEscapeStringBody(JsString(val), PG_U_CHARS_ESCAPE_MAP)
                        ELSE ReplaceAll(JsString(val), "\"", <<"\"", "\"">>)
             split == IF forbidQualified THEN escaped
                      ELSE ReplaceAll(escaped, ".",
                                      IF unicode THEN <<"\"", ".", "u", "&", "\"">>
                                      ELSE <<"\"", ".", "\"">>)
         IN  R((IF unicode THEN <<"u", "&", "\"">> ELSE <<"\"">>) \o split \o <<"\"">>)

\* An escaper that never uses the e'...' form.
PgEscapeStringWithoutPrefix(val) ==
    <<"'">> \o PgEscapeStringBody(JsString(val), PG_E_CHARS_ESCAPE_MAP) \o <<"'">>

\* pgEscapeString(val)
PgEscapeString(val) ==
    LET str == JsString(val)
        escapedVal == PgEscapeStringBody(str, PG_E_CHARS_ESCAPE_MAP)
    IN  IF escapedVal = str THEN <<"'">> \o escapedVal \o <<"'">>
        ELSE <<"e", "'">> \o escapedVal \o <<"'">>

CannotEmbedMsg(strValue, delimiter) ==
    <<"Cannot embed ">> \o JsonStringify(strValue) \o <<" between ">> \o delimiter

CannotEscapeMsg(delimiter) == <<"Cannot escape with ">> \o delimiter

\* An escaper that only looks for the whole tag in the text.
PgEscapeDelimitedStringWholeTagOnly(strValue, delimiter) ==
    IF Contains(strValue, delimiter) THEN Throw(CannotEmbedMsg(strValue, delimiter))
    ELSE R(strValue)

\* pgEscapeDelimitedString(strValue, delimiter)
\* An escaper that takes every delimiter that starts with a dollar sign for
\* a dollar quote.
PgEscapeDelimitedStringAnyDollar(strValue, delimiter) ==
    CASE delimiter \in {<<"'">>, <<"b", "'">>, <<"x", "'">>} ->
            R(ReplaceAll(strValue, "'", <<"'", "'">>))
      [] delimiter = <<"e", "'">> -> R(PgEscapeStringBody(strValue, PG_E_CHARS_ESCAPE_MAP))
      [] delimiter = <<"e">> ->
            R(<<"'">> \o PgEscapeStringBody(strValue, PG_E_CHARS_ESCAPE_MAP) \o <<"'">>)
      [] delimiter = <<"u", "&", "'">> ->
            R(PgEscapeStringBody(strValue, PG_U_CHARS_ESCAPE_MAP))
      [] OTHER ->
            IF delimiter # <<>> /\ delimiter[1] = "$"
            THEN LET lastDollar == LastIndexOf(strValue, "$")
                     tail == Drop(strValue, lastDollar - 1)
                     embedHazard ==
                         \/ IndexOf(strValue, delimiter) > 0
                         \/ /\ lastDollar > 0
                            /\ Len(tail) <= Len(delimiter)
                            /\ tail = Take(delimiter, Len(tail))
                 IN  IF embedHazard THEN Throw(CannotEmbedMsg(strValue, delimiter))
                     ELSE R(strValue)
            ELSE Throw(CannotEscapeMsg(delimiter))

PgEscapeDelimitedString(strValue, delimiter) ==
    CASE delimiter \in {<<"'">>, <<"b", "'">>, <<"x", "'">>} ->
            R(ReplaceAll(strValue, "'", <<"'", "'">>))
      [] delimiter = <<"e", "'">> -> R(PgEscapeStringBody(strValue, PG_E_CHARS_ESCAPE_MAP))
      [] delimiter = <<"e">> ->
            R(<<"'">> \o PgEscapeStringBody(strValue, PG_E_CHARS_ESCAPE_MAP) \o <<"'">>)
      [] delimiter = <<"u", "&", "'">> ->
            R(PgEscapeStringBody(strValue, PG_U_CHARS_ESCAPE_MAP))
      [] OTHER ->
            IF /\ delimiter # <<>>
               /\ delimiter[1] = "$"
               /\ IndexFrom(delimiter, <<"$">>, 2) = Len(delimiter)
            THEN LET lastDollar == LastIndexOf(strValue, "$")
                     tail == Drop(strValue, lastDollar - 1)
                     embedHazard ==
                         \/ IndexOf(strValue, delimiter) > 0
                         \/ /\ lastDollar > 0
                            /\ Len(tail) <= Len(delimiter)
                            /\ tail = Take(delimiter, Len(tail))
                 IN  IF embedHazard THEN Throw(CannotEmbedMsg(strValue, delimiter))
                     ELSE R(strValue)
            ELSE Throw(CannotEscapeMsg(delimiter))

----------------------------------------------------------------------------
(* makeEscaper(escapeId, escapeString): the free-standing escaper of a     *)
(* dialect.  mysqlEscape = makeEscaper(mysqlEscapeId, mysqlEscapeString)   *)
(* and pgEscape = makeEscaper(pgEscapeId, pgEscapeString).                 *)

escapeId(d, val) ==
    IF d = "mysql" THEN MysqlEscapeId(val, FALSE).out ELSE PgEscapeId(val, FALSE, FALSE).out

escapeString(d, val) == IF d = "mysql" THEN MysqlEscapeString(val) ELSE PgEscapeString(val)

\* pad(val, template) for the values formatDate passes, none of them
\* negative: val >>> 0 is val.
pad(val, template) == Drop(template, Len(NatToString(val))) \o NatToString(val)

DigitValue(c) == CHOOSE n \in 0..9 : HexDigits[n + 1] = c

\* TZ_REGEXP matches at position i of tz: a sign or white space, two digits.
TzMatchesAt(tz, i) ==
    /\ i + 2 <= Len(tz)
    /\ tz[i] \in {"+", "-"} \cup WSP
    /\ tz[i + 1] \in Digits
    /\ tz[i + 2] \in Digits

\* Where the leftmost match of TZ_REGEXP starts.
TzIndex(tz) ==
    CHOOSE k \in 1..Len(tz) : TzMatchesAt(tz, k) /\ \A j \in 1..(k - 1) : ~TzMatchesAt(tz, j)

\* Where group 3 would start for a match at i: behind the optional colon.
TzNext(tz, i) == IF i + 3 <= Len(tz) /\ tz[i + 3] = ":" THEN i + 4 ELSE i + 3

\* The groups of the match at i, as numbers; m3 is 0 when group 3 is not
\* there (the two digits at next are missing).
TzGroups(tz, i, next) ==
    [found |-> TRUE,
     m1 |-> tz[i],
     m2 |-> 10 * DigitValue(tz[i + 1]) + DigitValue(tz[i + 2]),
     m3 |-> IF next + 1 <= Len(tz) /\ tz[next] \in Digits /\ tz[next + 1] \in Digits
            THEN 10 * DigitValue(tz[next]) + DigitValue(tz[next + 1])
            ELSE 0]

\* TZ_REGEXP.exec(tz)
TZ_REGEXP(tz) ==
    IF \A i \in 1..Len(tz) : ~TzMatchesAt(tz, i) THEN [found |-> FALSE]
    ELSE TzGroups(tz, TzIndex(tz), TzNext(tz, TzIndex(tz)))

\* The pairs <<HH, MM>> below 24:00 for which the double (HH + MM / 60) * 60
\* is less than the whole number 60 * HH + MM; for these, and no others, the
\* product with 60000 is less than a whole number of milliseconds too.
RoundsBelow ==
    { <<1, 40>>, <<1, 55>>, <<2, 3>>, <<4, 5>>, <<4, 6>>, <<4, 7>>, <<8, 10>>, <<8, 12>>,
      <<8, 14>>, <<8, 25>>, <<8, 27>>, <<8, 29>>, <<16, 5>>, <<16, 9>>, <<16, 13>>,
      <<16, 20>>, <<16, 24>>, <<16, 28>>, <<16, 35>>, <<16, 39>>, <<16, 43>>, <<16, 50>>,
      <<16, 54>>, <<16, 58>> }

\* (m[1] === '-' ? -1 : 1) * (m[2] + m[3] / 60) * 60 for the groups m.  The
\* number is a double: minutes is the whole number next to it and below
\* tells that the double lies under that number in magnitude.
TzOffset(m) ==
    [found |-> TRUE,
     minutes |-> (IF m.m1 = "-" THEN 0 - 1 ELSE 1) * (m.m2 * 60 + m.m3),
     below |-> <<m.m2, m.m3>> \in RoundsBelow]

\* convertTimezone(tz): found is unset where the code returns false.
convertTimezone(tz) ==
    IF tz = <<"Z">> THEN [found |-> TRUE, minutes |-> 0, below |-> FALSE]
    ELSE IF TZ_REGEXP(tz).found THEN TzOffset(TZ_REGEXP(tz))
    ELSE [found |-> FALSE, minutes |-> 0, below |-> FALSE]

MsPerDay == 24 * 60 * 60 * 1000

\* The date delta milliseconds after date.
Later(date, delta) ==
    [date EXCEPT !.n = date.n + ((date.ms + delta) \div MsPerDay),
                 !.ms = (date.ms + delta) % MsPerDay]

\* dt.setTime(dt.getTime() + (tz * 60000)): the sum is a double and setTime
\* drops its fraction.  When getTime() is 0 the sum is the product itself,
\* which is one millisecond short in magnitude once its fraction is dropped
\* if it lies below the whole number; when the date is 2^25 ms or more from
\* 1970-01-01 the sum rounds to the whole number.  The dates of the model
\* are of these two kinds.
SetTime(date, tz) ==
    IF date.n = 0 /\ date.ms = 0 /\ tz.below
    THEN Later(date, tz.minutes * 60000 - (IF tz.minutes < 0 THEN 0 - 1 ELSE 1))
    ELSE Later(date, tz.minutes * 60000)

\* The calendar of the Date getters (proleptic Gregorian), for the years 1
\* to 2999: the days from 1970-01-01 to the first day of year y, and from
\* the first day of year y to the first day of its month m.
IsLeapYear(y) == y % 4 = 0 /\ (y % 100 # 0 \/ y % 400 = 0)

DaysBeforeYear(y) ==
    365 * (y - 1970) + ((y - 1) \div 4) - ((y - 1) \div 100) + ((y - 1) \div 400) - 477

DaysBeforeMonth(y, m) ==
    <<0, 31, 59, 90, 120, 151, 181, 212, 243, 273, 304, 334, 365>>[m]
        + (IF m > 2 /\ IsLeapYear(y) THEN 1 ELSE 0)

\* dt.getUTCFullYear()
UTCFullYear(date) ==
    CHOOSE y \in 1..2999 : DaysBeforeYear(y) <= date.n /\ date.n < DaysBeforeYear(y + 1)

\* dt.getUTCMonth() + 1
UTCMonth(date) ==
    CHOOSE m \in 1..12 :
        /\ DaysBeforeMonth(UTCFullYear(date), m) <= date.n - DaysBeforeYear(UTCFullYear(date))
        /\ date.n - DaysBeforeYear(UTCFullYear(date)) < DaysBeforeMonth(UTCFullYear(date), m + 1)

\* dt.getUTCDate()
UTCDate(date) ==
    date.n - DaysBeforeYear(UTCFullYear(date))
        - DaysBeforeMonth(UTCFullYear(date), UTCMonth(date)) + 1

\* formatDate(year, month, day, hour, minute, second, millis) with the UTC
\* fields of the date.
formatDate(d, date) ==
    escapeString(d, VStr(
        pad(UTCFullYear(date), <<"0", "0", "0", "0">>) \o <<"-">>
            \o pad(UTCMonth(date), <<"0", "0">>) \o <<"-">>
            \o pad(UTCDate(date), <<"0", "0">>) \o <<" ">>
            \o pad(date.ms \div 3600000, <<"0", "0">>) \o <<":">>
            \o pad((date.ms \div 60000) % 60, <<"0", "0">>) \o <<":">>
            \o pad((date.ms \div 1000) % 60, <<"0", "0">>) \o <<".">>
            \o pad(date.ms % 1000, <<"0", "0", "0">>)))

\* dateToString(date, timeZone); the local fields of a date are the UTC
\* fields of the instant date.zone minutes later.
dateToString(d, date, timeZone) ==
    IF ~date.valid THEN <<"N", "U", "L", "L">>
    ELSE IF timeZone = <<"l", "o", "c", "a", "l">>
    THEN formatDate(d, Later(date, date.zone * 60000))
    ELSE IF convertTimezone(timeZone).found /\ convertTimezone(timeZone).minutes # 0
    THEN formatDate(d, SetTime(date, convertTimezone(timeZone)))
    ELSE formatDate(d, date)

\* The properties the loop of objectToValues does not skip: those whose
\* value is not a function.
IsNoFunction(prop) == prop.elems[1].t # "fn"
KeptProperties(obj) == SelectSeq(obj.elems, IsNoFunction)

RECURSIVE Escape(_, _, _, _)
RECURSIVE ObjectToValues(_, _, _)

\* An objectToValues that escapes the value of a property with
\* stringifyObjects unset.
ObjectToValuesNestedPairs(d, obj, timeZone) ==
    Join([i \in 1..Len(KeptProperties(obj)) |->
             escapeId(d, VStr(KeptProperties(obj)[i].s)) \o <<" ", "=", " ">>
                 \o Escape(d, KeptProperties(obj)[i].elems[1], FALSE, timeZone)],
         <<",", " ">>)

ObjectToValues(d, obj, timeZone) ==
    Join([i \in 1..Len(KeptProperties(obj)) |->
             escapeId(d, VStr(KeptProperties(obj)[i].s)) \o <<" ", "=", " ">>
                 \o Escape(d, KeptProperties(obj)[i].elems[1], TRUE, timeZone)],
         <<",", " ">>)

Escape(d, val, stringifyObjects, timeZone) ==
    CASE val.t \in {"null", "undefined"} -> <<"N", "U", "L", "L">>
      [] val.t = "bool" -> IF val.n = 1 THEN <<"t", "r", "u", "e">> ELSE <<"f", "a", "l", "s", "e">>
      [] val.t = "num" -> NumberToString(val)
      [] val.t = "str" -> escapeString(d, val)
      [] val.t = "frag" -> val.s
      [] val.t = "id" -> escapeId(d, VStr(val.s))
      [] val.t = "date" ->
            dateToString(d, val, IF timeZone = <<>> THEN <<"l", "o", "c", "a", "l">> ELSE timeZone)
      [] val.t = "buf" -> BufferToString(val)
      [] val.t = "series" ->
            EscapeSeries(val.elems,
                         [element \in Elements(val.elems) |->
                             R(Escape(d, element, TRUE, timeZone))],
                         TRUE).out
      [] val.t = "obj" ->
            IF stringifyObjects THEN escapeString(d, VStr(toString(val)))
            ELSE ObjectToValues(d, val, timeZone)

\* An escaper that puts a fragment into a string slot as it is.
MysqlEscapeDelimitedFragmentVerbatim(value, delimiter, forbidQualified) ==
    IF delimiter = <<"BT">>
    THEN LET id == MysqlEscapeId(value, forbidQualified)
         IN  IF id.err # <<>> THEN id ELSE R(StripDelims(id.out, "BT", {}))
    ELSE IF value.t = "frag" THEN R(value.s)
    ELSE LET str == IF value.t = "buf" THEN value.s ELSE JsString(value)
             escaped == Escape("mysql", VStr(str), TRUE, NoTimeZone)
         IN  R(SubSeq(escaped, 2, Len(escaped) - 1))

MysqlEscapeDelimited(value, delimiter, forbidQualified) ==
    IF delimiter = <<"BT">>
    THEN LET id == MysqlEscapeId(value, forbidQualified)
         IN  IF id.err # <<>> THEN id ELSE R(StripDelims(id.out, "BT", {}))
    ELSE LET str == IF value.t = "buf" THEN value.s ELSE JsString(value)
             escaped == Escape("mysql", VStr(str), TRUE, NoTimeZone)
         IN  R(SubSeq(escaped, 2, Len(escaped) - 1))

PgEscapeDelimited(value, delimiter, forbidQualified) ==
    IF delimiter \in {<<"\"">>, <<"u", "&", "\"">>}
    THEN LET id == PgEscapeId(value, forbidQualified, delimiter # <<"\"">>)
         IN  IF id.err # <<>> THEN id ELSE R(StripDelims(id.out, "\"", {"u", "U"}))
    ELSE LET wantsBinaryDigits == delimiter = <<"b", "'">>
             hex == BufferHex(value.s)
             strValue == IF value.t # "buf" THEN JsString(value)
                         ELSE IF wantsBinaryDigits THEN hexToBinary(hex)
                         ELSE IF delimiter = <<"x", "'">> THEN hex
                         ELSE value.s
         IN  PgEscapeDelimitedString(strValue, delimiter)

escapeDelimited(d, value, delimiter, forbidQualified) ==
    IF d = "mysql" THEN MysqlEscapeDelimited(value, delimiter, forbidQualified)
    ELSE PgEscapeDelimited(value, delimiter, forbidQualified)

----------------------------------------------------------------------------
(* The interpolation driver, lib/tag-fn.js.                                *)

DefangMergeHazard(before, escaped, after) ==
    IF escaped = <<>> \/ Last(escaped) \notin {"\"", "'", "BT"}
    THEN escaped
    ELSE LET escapedLast == Last(escaped)
             setOff == IF escapedLast = escaped[1] /\ before # <<>> /\ escapedLast = Last(before)
                       THEN <<" ">> \o escaped ELSE escaped
         IN  IF after # <<>> /\ escapedLast = after[1] THEN setOff \o <<" ">> ELSE setOff

\* A driver that gives slot i the context the lexer returned one chunk later.
SlotDelimiterOfNextChunk(dels, i) == dels[i + 1]
\* const delimiter = delimiters[i - 1], the slots being counted from 1.
SlotDelimiter(dels, i) == dels[i]

\* A driver that forgets to append the literal chunk that follows a slot.
InterpolatedWithoutChunk(res, escaped, chunk) == res \o escaped
\* result += escaped + chunk
Interpolated(res, escaped, chunk) == res \o escaped \o chunk

----------------------------------------------------------------------------
(* A reference reading of literal text, used to state what the claims call *)
(* an open or a closed construct and top-level text.  It reads the chunks  *)
(* character by character; a delimiter never spans two chunks, because a   *)
(* slot lies between them.  open is the delimiter of the construct the     *)
(* text is inside (<<>> at top level), depth the nesting of a block        *)
(* comment, afterE whether only whitespace and comments followed the end   *)
(* of an e'...' string, top the characters outside every construct, quoted *)
(* whether a string, an identifier or a dollar quote was opened.           *)

RefInit == [open |-> <<>>, depth |-> 0, afterE |-> FALSE, top |-> <<>>, quoted |-> FALSE]

RefDelimiterAt(d, text, i) ==
    LET at(k) == IF i + k <= Len(text) THEN text[i + k] ELSE "<end>"
    IN  IF d = "pg" THEN SubSeq(text, i, i + TopLevelMatchLen(text, i) - 1)
        ELSE IF at(0) \in MysqlQuotes \cup {"#"} THEN <<at(0)>>
        ELSE IF at(0) = "-" /\ at(1) = "-" /\ at(2) \in WSP THEN <<"-", "-">>
        ELSE IF at(0) = "/" /\ at(1) = "*" THEN <<"/", "*">>
        ELSE <<>>

RefComments == {<<"-", "-">>, <<"#">>, <<"/", "*">>}

RECURSIVE RefChunk(_, _, _, _)
RefChunk(d, st, text, i) ==
    IF i > Len(text) THEN st
    ELSE LET c == text[i]
             at(k) == IF i + k <= Len(text) THEN text[i + k] ELSE "<end>"
             go(st2, k) == RefChunk(d, st2, text, i + k)
             start == RefDelimiterAt(d, text, i)
             q == Last(st.open)
             esc == d = "mysql" \/ st.open \in {<<"e", "'">>, <<"u", "&", "'">>, <<"u", "&", "\"">>}
         IN  CASE st.open = <<>> /\ start = <<>> ->
                    go([st EXCEPT !.top = Append(@, c), !.afterE = @ /\ c \in WSP], 1)
               [] st.open = <<>> /\ start \in RefComments ->
                    go([st EXCEPT !.open = start, !.depth = 1], Len(start))
               [] st.open = <<>> /\ start # <<>> /\ start \notin RefComments ->
                    go([st EXCEPT !.afterE = FALSE,
                                  !.quoted = TRUE,
                                  !.open = IF st.afterE /\ start = <<"'">> THEN <<"e", "'">>
                                           ELSE IF start[1] = "$" THEN start
                                           ELSE ToLowerCase(start)],
                       Len(start))
               [] st.open \in {<<"-", "-">>, <<"#">>} ->
                    go(IF c \in LineTerminators THEN [st EXCEPT !.open = <<>>] ELSE st, 1)
               [] st.open = <<"/", "*">> ->
                    IF c = "*" /\ at(1) = "/"
                    THEN go([st EXCEPT !.depth = @ - 1,
                                       !.open = IF st.depth = 1 THEN <<>> ELSE @], 2)
                    ELSE IF d = "pg" /\ c = "/" /\ at(1) = "*"
                    THEN go([st EXCEPT !.depth = @ + 1], 2)
                    ELSE go(st, 1)
               [] st.open # <<>> /\ st.open[1] = "$" ->
                    IF i + Len(st.open) - 1 <= Len(text) /\ SubSeq(text, i, i + Len(st.open) - 1) = st.open
                    THEN go([st EXCEPT !.open = <<>>], Len(st.open))
                    ELSE go(st, 1)
               [] OTHER ->
                    IF esc /\ c = "\\" THEN go(st, IF i < Len(text) THEN 2 ELSE 1)
                    ELSE IF c = q /\ at(1) = q THEN go(st, 2)
                    ELSE IF c = q
                    THEN go([st EXCEPT !.open = <<>>, !.afterE = st.open = <<"e", "'">>], 1)
                    ELSE go(st, 1)

RECURSIVE RefRead(_, _)
RefRead(d, texts) ==
    IF texts = <<>> THEN RefInit
    ELSE RefChunk(d, RefRead(d, Take(texts, Len(texts) - 1)), Last(texts), 1)

\* The lexer instance after the calls with the given arguments, and what the
\* last of them returned or threw.
RECURSIVE RunLexer(_, _)
RunLexer(d, args) ==
    IF args = <<>> THEN [st |-> MakeLexer, ret |-> <<>>, err |-> <<>>]
    ELSE LexerCall(d, RunLexer(d, Take(args, Len(args) - 1)).st, Last(args))

----------------------------------------------------------------------------
(* The inputs the model draws from.                                        *)

MaxChunks == 3

Dialects == {"mysql", "pg"}

TemplateChunks(d) ==
    IF d = "mysql"
    THEN { <<>>, <<"a">>, <<"'">>, <<"BT">>, <<"#">>, <<"'", "a", "'", "'", "b", "'">> }
    ELSE { <<>>, <<"'">>, <<"\"">>, <<"-">>, <<"e", "'">>, <<"'", "a", "'", "'", "b", "'">> }

Templates(d) == UNION { [1..n -> TemplateChunks(d)] : n \in 1..MaxChunks }

SlotValues ==
    { VNum(0 - 1), VStr(<<"a", "'">>), VId(<<"a", ".", "b">>), VFrag(<<"1">>),
      VSeries(<<VStr(<<"a">>), VNum(1)>>),
      VObj(<<"o", "'">>, <<VProp(<<"k">>, VNum(1))>>, <<"z">>) }

Options == [stringifyObjects : BOOLEAN, forbidQualified : BOOLEAN, unicode : BOOLEAN]

\* The options of a tag: the defaults, or both checks switched on.
TagOptions == { o \in Options : ~o.unicode /\ o.forbidQualified = o.stringifyObjects }

NoCall == [fn |-> "none", out |-> <<>>, err |-> <<>>]

----------------------------------------------------------------------------
(* Spec: one call of a template tag.  computeStatic feeds the chunks to a  *)
(* new lexer and signals the end of input; interpolateSqlIntoFragment      *)
(* escapes one value per slot and hands the text to decorateOutput.        *)

Init ==
    /\ dialect \in Dialects
    /\ chunks \in Templates(dialect)
    /\ lexer = MakeLexer
    /\ ret = <<>>
    /\ thrown = <<>>
    /\ fed = <<>>
    /\ pc = "computeStatic"
    /\ delimiters = <<>>
    /\ values = <<>>
    /\ options \in TagOptions
    /\ result = <<>>
    /\ slots = <<>>
    /\ minted = <<>>
    /\ escCall = NoCall
    /\ calls = 1
    /\ peer = <<>>
    /\ lastIndex = 0
    /\ unread = <<>>
    /\ loop = NoLoop
    /\ steps = 0

\* tag-fn.js line 72: delimiters.push(lexer(chunk))
LexChunk ==
    /\ pc = "computeStatic"
    /\ Len(fed) < Len(chunks)
    /\ LET chunk == chunks[Len(fed) + 1]
           r == LexerCall(dialect, lexer, chunk)
       IN  /\ fed' = Append(fed, chunk)
           /\ lexer' = r.st
           /\ ret' = r.ret
           /\ thrown' = r.err
           /\ delimiters' = IF r.err = <<>> THEN Append(delimiters, r.ret) ELSE delimiters
           /\ pc' = IF r.err = <<>> THEN "computeStatic" ELSE "failed"
    /\ UNCHANGED <<dialect, chunks, values, options, result, slots, minted,
                   escCall, calls, peer, lastIndex, unread, loop, steps>>

\* tag-fn.js line 76: lexer(null), then line 104: let [ result ] = chunks
LexEnd ==
    /\ pc = "computeStatic"
    /\ Len(fed) = Len(chunks)
    /\ LET r == LexerCall(dialect, lexer, JsNull)
       IN  /\ fed' = Append(fed, JsNull)
           /\ lexer' = r.st
           /\ ret' = r.ret
           /\ thrown' = r.err
           /\ pc' = IF r.err = <<>> THEN "interpolate" ELSE "failed"
           /\ result' = IF r.err = <<>> THEN chunks[1] ELSE result
    /\ UNCHANGED <<dialect, chunks, delimiters, values, options, slots, minted,
                   escCall, calls, peer, lastIndex, unread, loop, steps>>

\* A driver that hands the buffer to decorateOutput before the loop is over.
AllSlotsEscapedOrNot == TRUE
\* The loop of interpolateSqlIntoFragment is over: i = len.
AllSlotsEscaped == Len(values) = Len(chunks) - 1

\* tag-fn.js lines 105-120: one turn of the loop over the slots
EscapeSlot ==
    /\ pc = "interpolate"
    /\ Len(values) < Len(chunks) - 1
    /\ \E value \in SlotValues :
        LET i == Len(values) + 1
            chunk == chunks[i + 1]
            delimiter == SlotDelimiter(delimiters, i)
            delimited == escapeDelimited(dialect, value, delimiter, options.forbidQualified)
            bare == Escape(dialect, value, options.stringifyObjects, TimeZoneOf(options))
            escaped == IF delimiter # <<>> THEN delimited.out
                       ELSE DefangMergeHazard(result, bare, chunk)
            err == IF delimiter # <<>> THEN delimited.err ELSE <<>>
        IN  /\ values' = Append(values, value)
            /\ thrown' = err
            /\ pc' = IF err = <<>> THEN "interpolate" ELSE "failed"
            /\ result' = IF err = <<>> THEN Interpolated(result, escaped, chunk) ELSE result
            /\ slots' = IF err # <<>> THEN slots
                        ELSE Append(slots,
                                 [fn |-> IF delimiter # <<>> THEN "escapeDelimited" ELSE "escape",
                                  delimiter |-> delimiter,
                                  before |-> result,
                                  bare |-> IF delimiter # <<>> THEN delimited.out ELSE bare,
                                  escaped |-> escaped])
    /\ UNCHANGED <<dialect, lexer, ret, fed, chunks, delimiters, options, minted,
                   escCall, calls, peer, lastIndex, unread, loop, steps>>

\* tag-fn.js line 122: return decorateOutput(result)
Mint ==
    /\ pc = "interpolate"
    /\ AllSlotsEscaped
    /\ minted' = Append(minted, result)
    /\ pc' = "done"
    /\ UNCHANGED <<dialect, lexer, ret, thrown, fed, chunks, delimiters, values, options,
                   result, slots,
                   escCall, calls, peer, lastIndex, unread, loop, steps>>

Next == LexChunk \/ LexEnd \/ EscapeSlot \/ Mint

Spec == Init /\ [][Next]_vars

----------------------------------------------------------------------------
(* SpecMemo: the tag is called again with the same template.  What         *)
(* computeStatic returned is kept for the template and handed to           *)
(* interpolateSqlIntoFragment again; when computeStatic threw, nothing was *)
(* kept and the chunks are fed to a new lexer.  The templates have up to   *)
(* MaxMemoChunks chunks.                                                   *)

MaxCalls == 2

MaxMemoChunks == 2

\* Templates with at most one slot.
MemoTemplates(d) == UNION { [1..n -> TemplateChunks(d)] : n \in 1..MaxMemoChunks }

InitMemo ==
    /\ dialect \in Dialects
    /\ chunks \in MemoTemplates(dialect)
    /\ lexer = MakeLexer
    /\ ret = <<>>
    /\ thrown = <<>>
    /\ fed = <<>>
    /\ pc = "computeStatic"
    /\ delimiters = <<>>
    /\ values = <<>>
    /\ options \in TagOptions
    /\ result = <<>>
    /\ slots = <<>>
    /\ minted = <<>>
    /\ escCall = NoCall
    /\ calls = 1
    /\ peer = <<>>
    /\ lastIndex = 0
    /\ unread = <<>>
    /\ loop = NoLoop
    /\ steps = 0

\* What computeStatic returned for the template is at hand.
MemoizedAlsoAfterLexerError == TRUE
\* tag-fn.js line 125: computeStatic returned for the template, in this call
\* or in an earlier one.
Memoized == pc \in {"interpolate", "done"} \/ (pc = "failed" /\ values # <<>>)

\* The tag is called again with the same template.
TagAgain ==
    /\ pc \in {"done", "failed"}
    /\ calls < MaxCalls
    /\ calls' = calls + 1
    /\ thrown' = <<>>
    /\ IF Memoized
       THEN /\ pc' = "interpolate"
            /\ values' = <<>>
            /\ result' = chunks[1]
            /\ slots' = <<>>
            /\ UNCHANGED <<lexer, ret, fed, delimiters>>
       ELSE /\ pc' = "computeStatic"
            /\ lexer' = MakeLexer
            /\ ret' = <<>>
            /\ fed' = <<>>
            /\ delimiters' = <<>>
            /\ UNCHANGED <<values, result, slots>>
    /\ UNCHANGED <<dialect, chunks, options, minted, escCall, peer, lastIndex, unread, loop, steps>>

NextMemo == LexChunk \/ LexEnd \/ EscapeSlot \/ Mint \/ TagAgain

SpecMemo == InitMemo /\ [][NextMemo]_vars

\* computeStatic(strings): the delimiters a new lexer returns for the chunks,
\* or what the first call that throws has thrown.
ComputeStatic(d, chs) ==
    LET args == Append(chs, JsNull)
        throwing == { k \in 1..Len(args) : RunLexer(d, Take(args, k)).err # <<>> }
        first == CHOOSE k \in throwing : \A j \in throwing : k <= j
    IN  IF throwing = {}
        THEN [delimiters |-> [i \in 1..Len(chs) |-> RunLexer(d, Take(args, i)).ret],
              err |-> <<>>]
        ELSE [delimiters |-> <<>>, err |-> RunLexer(d, Take(args, first)).err]

\* interpolateSqlIntoFragment(options, { delimiters, chunks }, strings, values):
\* `result` after the turn of the loop for slot n, or what an escaper threw.
RECURSIVE InterpolateSqlIntoFragment(_, _, _, _, _, _)
InterpolateSqlIntoFragment(d, opts, delims, chs, vals, n) ==
    IF n = 0 THEN R(chs[1])
    ELSE IF InterpolateSqlIntoFragment(d, opts, delims, chs, vals, n - 1).err # <<>>
    THEN InterpolateSqlIntoFragment(d, opts, delims, chs, vals, n - 1)
    ELSE IF delims[n] # <<>>
    THEN IF escapeDelimited(d, vals[n], delims[n], opts.forbidQualified).err # <<>>
         THEN escapeDelimited(d, vals[n], delims[n], opts.forbidQualified)
         ELSE R(InterpolateSqlIntoFragment(d, opts, delims, chs, vals, n - 1).out
                    \o escapeDelimited(d, vals[n], delims[n], opts.forbidQualified).out
                    \o chs[n + 1])
    ELSE R(InterpolateSqlIntoFragment(d, opts, delims, chs, vals, n - 1).out
               \o DefangMergeHazard(
                      InterpolateSqlIntoFragment(d, opts, delims, chs, vals, n - 1).out,
                      Escape(d, vals[n], opts.stringifyObjects, TimeZoneOf(opts)),
                      chs[n + 1])
               \o chs[n + 1])

----------------------------------------------------------------------------
(* SpecLexer: one lexer instance called directly, as the lexer tests do:   *)
(* any chunk or null, in any order, also after a call has thrown.          *)

MaxFeeds == 3

LexerChunks(d) ==
    IF d = "mysql"
    THEN { <<>>, <<"a">>, <<"'">>, <<"\"">>, <<"BT">>, <<"#">>, <<"\n">>, <<"\\">>,
           <<"-", "-", " ">>, <<"/", "*">>, <<"/", "*", "a", "*", "/">>,
           <<"'", "a", "'", "'", "b", "'">>,
           <<"#", "'", "\n">>, <<"a", "#", "\"">>, <<"-", "-", " ", "'", "\n">>,
           <<"/", "*", "'", "*", "/">> }
    ELSE { <<>>, <<"a">>, <<"'">>, <<"\"">>, <<"-", "-">>, <<"\n">>, <<"/", "*">>,
           <<"*", "/">>, <<"$", "a", "$">>, <<"E", "'">>, <<"e", "'", "a", "'">>,
           <<"-", "-", "a">>, <<"'", "*", "/">>, <<"$", "a">>, <<"$", "A", "$", "b">>,
           <<"a", "$", "a", "$", "'">>, <<"\n", "$", "a", "$">>, <<"a", "\n">>,
           <<"\n", "'", "a", "'">>,
           <<"#", "'", "\n">>, <<"a", "#", "\"">>, <<"-", "-", " ", "'", "\n">>,
           <<"/", "*", "'", "*", "/">> }

InitLexer ==
    /\ dialect \in Dialects
    /\ lexer = MakeLexer
    /\ ret = <<>>
    /\ thrown = <<>>
    /\ fed = <<>>
    /\ pc = "lexer"
    /\ chunks = <<>>
    /\ delimiters = <<>>
    /\ values = <<>>
    /\ options = [stringifyObjects |-> FALSE, forbidQualified |-> FALSE, unicode |-> FALSE]
    /\ result = <<>>
    /\ slots = <<>>
    /\ minted = <<>>
    /\ escCall = NoCall
    /\ calls = 0
    /\ peer = <<>>
    /\ lastIndex = 0
    /\ unread = <<>>
    /\ loop = NoLoop
    /\ steps = 0

\* The state after lexer(arg), r being the outcome of the call.
Called(arg, r) ==
    /\ fed' = Append(fed, arg)
    /\ lexer' = r.st
    /\ ret' = r.ret
    /\ thrown' = r.err
    /\ UNCHANGED <<dialect, pc, chunks, delimiters, values, options, result, slots,
                   minted,
                   escCall, calls, peer, lastIndex, unread, loop, steps>>

\* lexer(chunk)
Feed ==
    /\ pc = "lexer"
    /\ Len(fed) < MaxFeeds
    /\ \E chunk \in LexerChunks(dialect) : Called(chunk, LexerCall(dialect, lexer, chunk))

\* lexer(null)
FeedEnd ==
    /\ pc = "lexer"
    /\ Len(fed) < MaxFeeds
    /\ Called(JsNull, LexerCall(dialect, lexer, JsNull))

NextLexer == Feed \/ FeedEnd

SpecLexer == InitLexer /\ [][NextLexer]_vars

----------------------------------------------------------------------------
(* SpecPair: two lexer instances, of the same dialect or not, called in    *)
(* any order with null or a chunk of at most two characters, MaxPairFeeds  *)
(* calls in all.                                                           *)

MaxPairFeeds == 3

\* A lexer whose variables are declared once for all instances.
ClosureOfModule(own, other) == other
\* pg-lexer.js 206-209, mysql-lexer.js 87-89: the variables of a lexer are
\* declared inside makeLexer, so the closure of an instance sees its own.
Closure(own, other) == own

InitPair ==
    /\ dialect \in Dialects
    /\ lexer = MakeLexer
    /\ ret = <<>>
    /\ thrown = <<>>
    /\ fed = <<>>
    /\ \E d \in Dialects :
          peer = [dialect |-> d, lexer |-> MakeLexer, ret |-> <<>>, thrown |-> <<>>, fed |-> <<>>]
    /\ pc = "lexer"
    /\ chunks = <<>>
    /\ delimiters = <<>>
    /\ values = <<>>
    /\ options = [stringifyObjects |-> FALSE, forbidQualified |-> FALSE, unicode |-> FALSE]
    /\ result = <<>>
    /\ slots = <<>>
    /\ minted = <<>>
    /\ escCall = NoCall
    /\ calls = 0
    /\ lastIndex = 0
    /\ unread = <<>>
    /\ loop = NoLoop
    /\ steps = 0

\* lexer(arg) on the first instance
FeedOne ==
    /\ Len(fed) + Len(peer.fed) < MaxPairFeeds
    /\ \E arg \in { c \in LexerChunks(dialect) : Len(c) <= 2 } \cup {JsNull} :
          Called(arg, LexerCall(dialect, Closure(lexer, peer.lexer), arg))

\* lexer(arg) on the second instance
FeedPeer ==
    /\ Len(fed) + Len(peer.fed) < MaxPairFeeds
    /\ \E arg \in { c \in LexerChunks(peer.dialect) : Len(c) <= 2 } \cup {JsNull} :
          peer' = [dialect |-> peer.dialect,
                   lexer |-> LexerCall(peer.dialect, Closure(peer.lexer, lexer), arg).st,
                   ret |-> LexerCall(peer.dialect, Closure(peer.lexer, lexer), arg).ret,
                   thrown |-> LexerCall(peer.dialect, Closure(peer.lexer, lexer), arg).err,
                   fed |-> Append(peer.fed, arg)]
    /\ UNCHANGED <<dialect, lexer, ret, thrown, fed, pc, chunks, delimiters, values, options,
                   result, slots, minted, escCall, calls, lastIndex, unread, loop, steps>>

NextPair == FeedOne \/ FeedPeer

SpecPair == InitPair /\ [][NextPair]_vars

----------------------------------------------------------------------------
(* SpecEscape: one direct call of an entry point of a dialect's escaper:   *)
(* escape(value, stringifyObjects), escapeId(value, forbidQualified) or    *)
(* escapeDelimited(value, delimiter, timeZone, forbidQualified).           *)

Contexts(d) ==
    IF d = "mysql" THEN { <<"'">>, <<"\"">>, <<"BT">> }
    ELSE { <<"'">>, <<"\"">>, <<"b", "'">>, <<"x", "'">>, <<"e", "'">>, <<"e">>,
           <<"u", "&", "'">>, <<"u", "&", "\"">>, <<"$", "$">>, <<"$", "a", "$">>,
           <<"-", "-">>, <<"/", "*">>, <<>>, <<"?">>, <<"$", "x">>, <<"$", "$", "$">>,
           <<"z", "'">>, <<"E", "'">> }

EscapeValues ==
    { VNull, VBool(TRUE), VNum(0 - 1), VNum(10),
      VStr(<<>>), VStr(<<"x">>), VStr(<<"x", "'">>), VStr(<<"x", "\"">>),
      VStr(<<"x", "BT">>), VStr(<<"\\">>), VStr(<<"x", "\n">>), VStr(<<"a", ".", "b">>),
      VStr(<<"$">>), VStr(<<"x", "$", "a", "$">>), VStr(<<"x", "$", "a">>), VStr(<<"$", "b">>),
      VStr(<<"NUL">>), VStr(<<"x", "NUL", "1">>),
      VId(<<"a", ".", "b">>), VId(<<"x", "BT">>),
      VFrag(<<"1">>), VFrag(<<"BT", "a", "BT">>), VFrag(<<"\"", "a", "\"", ".", "\"", "b", "\"">>),
      VFrag(<<"BT", "a", "BT", ".", "BT", "b", "BT">>), VFrag(<<"\"", "a", "\"">>),
      VFrag(<<"\"", "a", "\"", ".">>), VFrag(<<"BT", "a", "BT", "b">>),
      VFrag(<<"\"", "\"">>), VFrag(<<"BT", "BT", "BT", "BT">>),
      VFrag(<<"\"", "a", "\"", "\"", "b", "\"">>), VFrag(<<"U", "&", "\"", "\\", "\"", "\"">>),
      VFrag(<<"u", "&", "\"", "a", "\"", ".", "\"", "b">>),
      VUndefined, VBool(FALSE), VNumber("NaN"), VNumber("Infinity"), VNumber("-Infinity"),
      VNumber("-0"),
      VBuf(<<"a">>), VBuf(<<"'">>), VBufOwnToString(<<"a", "'", "$">>, <<"o">>),
      VSeries(<<VStr(<<"x", "'">>), VNum(1)>>),
      VSeries(<<VSeries(<<VStr(<<"x">>), VNull>>), VFrag(<<"1">>)>>),
      VObj(<<"x", "'">>, <<VProp(<<"k">>, VNum(1))>>, <<"z">>),
      VObj(<<"x">>, <<VProp(<<"k", "BT">>, VObj(<<"x", "'">>, <<>>, <<"z">>)),
                      VProp(<<"j">>, VStr(<<"x", "'">>))>>, <<"z">>),
      VSeries(<<VObj(<<"x", "\\">>, <<>>, <<"z">>), VStr(<<"a">>)>>),
      VStr(<<"BT", "\"", ".", "BT", "\"", ".">>),
      VSeries(<<VStr(<<"a", ".", "b">>),
                VSeries(<<VStr(<<"x", "\"">>), VSeries(<<VNum(1), VNull>>)>>)>>),
      VFrag(<<"a", "'", "\\">>),
      VSeries(<<VNum(1), VFrag(<<"\"", "a", "\"">>)>>),
      VObj(<<"x">>, <<VProp(<<"k">>, VFrag(<<"a", "'", "\\">>))>>, <<"z">>),
      VObj(<<"x">>, <<VProp(<<"f">>, VFn(<<"f", "(", ")">>)), VProp(<<"a">>, VStr(<<"b">>)),
                      VProp(<<"c">>, VFn(<<"c", "(", ")">>)),
                      VProp(<<"n">>, VObj(<<"y", "'">>, <<VProp(<<"k">>, VNum(1))>>, <<"z">>))>>,
           <<"z">>) }

InitEscape ==
    /\ dialect \in Dialects
    /\ values \in { <<v>> : v \in EscapeValues }
    /\ delimiters \in { <<c>> : c \in Contexts(dialect) }
    /\ options \in Options
    /\ pc = "escaper"
    /\ lexer = MakeLexer
    /\ ret = <<>>
    /\ thrown = <<>>
    /\ fed = <<>>
    /\ chunks = <<>>
    /\ result = <<>>
    /\ slots = <<>>
    /\ minted = <<>>
    /\ escCall = NoCall
    /\ calls = 0
    /\ peer = <<>>
    /\ lastIndex = 0
    /\ unread = <<>>
    /\ loop = NoLoop
    /\ steps = 0

\* The state after the call of entry point fn, r being what it returned or threw.
Escaped(fn, r) ==
    /\ escCall' = [fn |-> fn, out |-> r.out, err |-> r.err]
    /\ thrown' = r.err
    /\ pc' = "escaped"
    /\ UNCHANGED <<dialect, lexer, ret, fed, chunks, delimiters, values, options, result,
                   slots, minted, calls, peer, lastIndex, unread, loop, steps>>

\* escape(value, stringifyObjects, timeZone)
CallEscape ==
    /\ pc = "escaper"
    /\ Escaped("escape",
               R(Escape(dialect, values[1], options.stringifyObjects, TimeZoneOf(options))))

\* escapeId(value, forbidQualified), and for Postgres the third argument unicode
CallEscapeId ==
    /\ pc = "escaper"
    /\ Escaped("escapeId",
               IF dialect = "mysql" THEN MysqlEscapeId(values[1], options.forbidQualified)
               ELSE PgEscapeId(values[1], options.forbidQualified, options.unicode))

\* escapeDelimited(value, delimiter, timeZone, forbidQualified)
CallEscapeDelimited ==
    /\ pc = "escaper"
    /\ Escaped("escapeDelimited",
               escapeDelimited(dialect, values[1], delimiters[1], options.forbidQualified))

NextEscape == CallEscape \/ CallEscapeId \/ CallEscapeDelimited

SpecEscape == InitEscape /\ [][NextEscape]_vars

----------------------------------------------------------------------------
(* SpecText: escape(value) called once with a string, for every string up  *)
(* to MaxTextLen characters over the characters of the escape tables and   *)
(* two characters outside them.                                            *)

MaxTextLen == 3

TextChars == CHARS_GLOBAL_REGEXP \cup {"a", "0"}

Texts == UNION { [1..n -> TextChars] : n \in 0..MaxTextLen }

InitText ==
    /\ dialect \in Dialects
    /\ values \in { <<VStr(s)>> : s \in Texts }
    /\ delimiters = <<>>
    /\ options = [stringifyObjects |-> FALSE, forbidQualified |-> FALSE, unicode |-> FALSE]
    /\ pc = "escaper"
    /\ lexer = MakeLexer
    /\ ret = <<>>
    /\ thrown = <<>>
    /\ fed = <<>>
    /\ chunks = <<>>
    /\ result = <<>>
    /\ slots = <<>>
    /\ minted = <<>>
    /\ escCall = NoCall
    /\ calls = 0
    /\ peer = <<>>
    /\ lastIndex = 0
    /\ unread = <<>>
    /\ loop = NoLoop
    /\ steps = 0

NextText == CallEscape

SpecText == InitText /\ [][NextText]_vars

----------------------------------------------------------------------------
(* SpecCalls: escape and escapeDelimited called one after the other with   *)
(* strings and with functions.  CHARS_GLOBAL_REGEXP is one object for all  *)
(* calls, and its lastIndex is where the next exec starts to look.  For    *)
(* Postgres escape passes a function on to pgEscapeStringBody as it is     *)
(* (pg-escaper.js line 158), and str.substring then throws inside the loop *)
(* when the text of the function holds a character of the pattern.         *)

MaxEscapeCalls == 3


CallValues ==
    { VStr(<<"a">>), VStr(<<"a", "'">>), VStr(<<"'", "a", "\\">>),
      VFn(<<"a">>), VFn(<<"a", "'", "a">>) }

\* CHARS_GLOBAL_REGEXP.exec(str) with lastIndex = from: the position of the
\* first match behind the first `from` characters, which is the lastIndex
\* exec leaves; 0 when there is none, and lastIndex is 0 then as well.
Exec(str, from) ==
    IF \E i \in (from + 1)..Len(str) : str[i] \in CHARS_GLOBAL_REGEXP
    THEN CHOOSE i \in (from + 1)..Len(str) :
            /\ str[i] \in CHARS_GLOBAL_REGEXP
            /\ \A j \in (from + 1)..(i - 1) : str[j] \notin CHARS_GLOBAL_REGEXP
    ELSE 0

\* A body that goes on from where the last call stopped.
LastIndexKept(index) == index
\* CHARS_GLOBAL_REGEXP.lastIndex = 0
ResetLastIndex(index) == 0

\* pgEscapeStringBody(str, escapeMap) and the loop of mysqlEscapeString, with
\* the lastIndex found at the call: what is returned or thrown, and the
\* lastIndex left.  isString tells whether str has a substring method.
EscapeStringBody(str, isString, escapeMap, index) ==
    IF Exec(str, ResetLastIndex(index)) = 0
    THEN [out |-> str, err |-> <<>>, lastIndex |-> 0]
    ELSE IF ~isString
    THEN [out |-> <<>>, err |-> <<"str.substring is not a function">>,
          lastIndex |-> Exec(str, ResetLastIndex(index))]
    ELSE [out |-> SubSeq(str, 1, ResetLastIndex(index))
                      \o ReplaceChars(SubSeq(str, ResetLastIndex(index) + 1, Len(str)),
                                      escapeMap),
          err |-> <<>>, lastIndex |-> 0]

\* escape(val) and escapeDelimited(val, delimiter) for a string or a
\* function, with the lastIndex found at the call.
EscapeCall(d, fn, val, delimiter, index) ==
    LET body == EscapeStringBody(JsString(val),
                                 d = "mysql" \/ fn = "escapeDelimited" \/ val.t = "str",
                                 IF d = "mysql" THEN MYSQL_CHARS_ESCAPE_MAP
                                 ELSE PG_E_CHARS_ESCAPE_MAP,
                                 index)
    IN  IF body.err # <<>> \/ fn = "escapeDelimited" THEN body
        ELSE IF d = "mysql" \/ (val.t = "str" /\ body.out = JsString(val))
        THEN [body EXCEPT !.out = <<"'">> \o body.out \o <<"'">>]
        ELSE [body EXCEPT !.out = <<"e", "'">> \o body.out \o <<"'">>]

InitCalls ==
    /\ dialect \in Dialects
    /\ values = <<>>
    /\ delimiters = <<>>
    /\ options = [stringifyObjects |-> FALSE, forbidQualified |-> FALSE, unicode |-> FALSE]
    /\ pc = "escaper"
    /\ lexer = MakeLexer
    /\ ret = <<>>
    /\ thrown = <<>>
    /\ fed = <<>>
    /\ chunks = <<>>
    /\ result = <<>>
    /\ slots = <<>>
    /\ minted = <<>>
    /\ escCall = NoCall
    /\ calls = 0
    /\ peer = <<>>
    /\ lastIndex = 0
    /\ unread = <<>>
    /\ loop = NoLoop
    /\ steps = 0

\* escape(value), or escapeDelimited(value, delimiter) inside a string whose
\* body the character pattern is run over: '...' for MySQL, e'...' for
\* Postgres.
CallAgain ==
    /\ pc = "escaper"
    /\ Len(values) < MaxEscapeCalls
    /\ \E fn \in {"escape", "escapeDelimited"}, value \in CallValues :
          LET delimiter == IF fn = "escape" THEN <<>>
                           ELSE IF dialect = "mysql" THEN <<"'">> ELSE <<"e", "'">>
              r == EscapeCall(dialect, fn, value, delimiter, lastIndex)
          IN  /\ values' = Append(values, value)
              /\ delimiters' = <<delimiter>>
              /\ escCall' = [fn |-> fn, out |-> r.out, err |-> r.err, before |-> lastIndex]
              /\ thrown' = r.err
              /\ lastIndex' = r.lastIndex
    /\ UNCHANGED <<dialect, lexer, ret, fed, pc, chunks, options, result, slots, minted,
                   calls, peer, unread, loop, steps>>

NextCalls == CallAgain

SpecCalls == InitCalls /\ [][NextCalls]_vars

----------------------------------------------------------------------------
(* SpecDate: escape(date, false, timeZone) called once, for a date of a    *)
(* few instants on hosts of three zones and for a few zone strings.        *)

HostZones == {0 - 480, 0, 330}

Instants ==
    { <<15467, 42123002>>, <<10957, 0>>, <<10956, 86399999>>, <<19782, 73800000>>,
      <<19417, 7200005>>, <<0 - 358878, 14582001>>, <<0, 0>> }

DateValues == { VDate(i[1], i[2], z) : i \in Instants, z \in HostZones } \cup {InvalidDate}

TimeZones ==
    { NoTimeZone, <<"l", "o", "c", "a", "l">>, <<"Z">>, <<"+", "0", "1">>,
      <<"+", "0", "2", "0", "0">>, <<"-", "0", "5", ":", "0", "0">>,
      <<"+", "0", "5", ":", "3", "0">>, <<"-", "0", "9", "3", "0">>,
      <<"f", "o", "o">>, <<"+", "1">>, <<"+", "0", "1", ":", "4", "0">>,
      <<"-", "0", "1", "4", "0">> }

InitDate ==
    /\ dialect \in Dialects
    /\ values \in { <<v>> : v \in DateValues }
    /\ delimiters = <<>>
    /\ options \in [stringifyObjects : {FALSE}, forbidQualified : {FALSE}, unicode : {FALSE},
                    timeZone : TimeZones]
    /\ pc = "escaper"
    /\ lexer = MakeLexer
    /\ ret = <<>>
    /\ thrown = <<>>
    /\ fed = <<>>
    /\ chunks = <<>>
    /\ result = <<>>
    /\ slots = <<>>
    /\ minted = <<>>
    /\ escCall = NoCall
    /\ calls = 0
    /\ peer = <<>>
    /\ lastIndex = 0
    /\ unread = <<>>
    /\ loop = NoLoop
    /\ steps = 0

NextDate == CallEscape

SpecDate == InitDate /\ [][NextDate]_vars

----------------------------------------------------------------------------
(* SpecScan: one lexer instance fed MaxScanFeeds chunks, each any text of  *)
(* at most MaxScanLen characters of the dialect's delimiters, or one of    *)
(* the longer texts below (nested comments, prefixed strings, dashes).     *)

MaxScanFeeds == 2

MaxScanLen == 2

ScanChars(d) ==
    IF d = "mysql" THEN {"'", "\"", "BT", "\\", "-", " ", "\n", "a"}
    ELSE {"'", "\"", "\\", "/", "*", "-", "\n", "a"}

ShortTexts(d) == UNION { [1..n -> ScanChars(d)] : n \in 0..MaxScanLen }

LongTexts(d) ==
    IF d = "mysql"
    THEN { <<"1", "-", "-", "1">>, <<"1", "-", "-", "1", "'">>, <<"1", "-", "-", " ", "1", "'">>,
           <<"1", "-", "-", " ", "1", "\n", "'">>, <<"'", "a", "\\">>, <<"\"", "a", "\\">>,
           <<"BT", "a", "\\">>, <<"'", "\\", "'", "'">>, <<"\"", "\\", "\"", "\"">>,
           <<"BT", "\\", "BT", "BT">>, <<"'", "'", "'", "'">>, <<"BT", "BT", "BT", "a">>,
           <<"'", "\\", "\n", "'">>, <<"/", "*", "'", "*", "/", "'">>,
           <<"\\", "'", "'">>, <<"a", "\\", "'">>, <<"'", "'", "'">>, <<"\\", "\\", "'">>,
           <<"\\", "\"", "\"">>, <<"\"", "\"", "\"">>, <<"\\", "BT", "BT">>,
           <<"a", "BT", "BT", "BT">>, <<"a", "\\", "\n", "a">> }
    ELSE { <<"\\", "'", "'">>, <<"a", "\\", "'">>, <<"'", "'", "'">>, <<"\\", "\\", "'">>,
           <<"\\", "\"", "\"">>, <<"\"", "\"", "\"">>, <<"a", "\\", "\n", "a">>,
           <<"a", "\\", "a", "'", "a">>,
           <<"/", "*", "/", "*", "*", "/", "*", "/">>, <<"/", "*", "/", "*", "*", "/">>,
           <<"/", "*", "'", "*", "/", "'">>, <<"/", "*", "a", "*", "/", "a">>,
           <<"/", "*", "/", "*", "a", "*", "/">>, <<"/", "*", "*", "/", "*", "/">>,
           <<"/", "*", "\"", "/", "*", "'", "*", "/", "*", "/", "a">>,
           <<"1", "-", "-", "1">>, <<"1", "-", "-", "1", "'">>, <<"1", "-", "-", "1", "\n", "'">>,
           <<"e", "'">>, <<"E", "'">>, <<"u", "&", "'">>, <<"U", "&", "'">>, <<"u", "&", "\"">>,
           <<"U", "&", "\"">>, <<"b", "'">>, <<"B", "'">>, <<"x", "'">>, <<"X", "'">>,
           <<"e", "'", "a", "'">>, <<"e", "'", "\\", "'", "'">>, <<"E", "'", "a", "\\">>,
           <<"u", "&", "'", "\\", "'", "'">>, <<"U", "&", "\"", "\\", "\"", "\"">>,
           <<"u", "&", "\"", "a", "\\">>, <<"b", "'", "\\", "'">>, <<"X", "'", "\\", "'", "'">>,
           <<"'", "'", "'", "'">>, <<"e", "'", "\\", "\n", "'">>,
           <<"$", "A", "$">>, <<"$", "A", "$", "a", "$", "a", "$">> }

ScanChunks(d) == ShortTexts(d) \cup LongTexts(d)

\* lexer(chunk)
FeedScan ==
    /\ pc = "lexer"
    /\ Len(fed) < MaxScanFeeds
    /\ \E chunk \in ScanChunks(dialect) : Called(chunk, LexerCall(dialect, lexer, chunk))

NextScan == FeedScan

SpecScan == InitLexer /\ [][NextScan]_vars

----------------------------------------------------------------------------
(* SpecComment: one call of a template tag, as in Spec, for templates      *)
(* whose literal text opens and closes comments around the slots.          *)

CommentChunks(d) ==
    IF d = "mysql"
    THEN { <<>>, <<"a">>, <<"\n">>, <<"-", "-">>, <<"-", "-", " ">>, <<"#">>, <<"/", "*">>,
           <<"*", "/">>, <<"-", "-", " ", "a">>, <<"/", "*", "a">>, <<"a", "#", "\n">> }
    ELSE { <<>>, <<"a">>, <<"\n">>, <<"-", "-">>, <<"/", "*">>, <<"*", "/">>,
           <<"-", "-", "a">>, <<"/", "*", "a">>, <<"e", "'", "a", "'">>,
           <<"e", "'", "a", "'", "/", "*">>, <<"E", "'", "a", "'", " ", "-", "-">> }

CommentTemplates(d) == UNION { [1..n -> CommentChunks(d)] : n \in 2..MaxChunks }

InitComment ==
    /\ dialect \in Dialects
    /\ chunks \in CommentTemplates(dialect)
    /\ lexer = MakeLexer
    /\ ret = <<>>
    /\ thrown = <<>>
    /\ fed = <<>>
    /\ pc = "computeStatic"
    /\ delimiters = <<>>
    /\ values = <<>>
    /\ options \in TagOptions
    /\ result = <<>>
    /\ slots = <<>>
    /\ minted = <<>>
    /\ escCall = NoCall
    /\ calls = 1
    /\ peer = <<>>
    /\ lastIndex = 0
    /\ unread = <<>>
    /\ loop = NoLoop
    /\ steps = 0

SpecComment == InitComment /\ [][Next]_vars

----------------------------------------------------------------------------
(* The loops of the lexers, one iteration at a time.  A call that reaches  *)
(* its scanning loop is at pc "scanning", and loop.at names the loop whose *)
(* test comes next: "top" is the while loop of the function makeLexer      *)
(* returns, "block" the loop of handler '*', "esc" the outer and "inner"   *)
(* the inner loop of handler 'e'.  unread is the local `remainder`         *)
(* (`text` in lib/mysql-lexer.js).                                         *)

MaxStepFeeds == 2
MaxSteps == 40

\* Chunks that make the loops run: nested comments, continuations of an
\* e'...' string over white space and comments, dollar quotes, escapes.
StepTexts(d) ==
    IF d = "mysql"
    THEN { <<"a", " ", "-", "-", " ", "b", "\n", "'", "c", "'">>,
           <<"#", "a", "\n", "BT", "b", "BT">>,
           <<"/", "*", "a", "*", "/", "'", "b", "'", "'", "c">>,
           <<"'", "a", "\\", "'", "'", "\"", "b", "\"">>,
           <<"a", "/", "*">>,
           <<"'", "a", "\\">>,
           <<"-", "-", " ", "a">>,
           <<"a", "'", "b", "'", "c", "\"", "d", "\"", "e", "BT", "f", "BT">> }
    ELSE { <<"e", "'", "a", "'">>,
           <<"E", "'", "a", "'", " ", "/", "*", "a", "*", "/", "\n", "'", "b", "'">>,
           <<"e", "'", "a", "'", "\n", "-", "-", "a", "\n", "'", "b", "'", "a">>,
           <<"e", "'", "a", "'", "/", "*", "/", "*", "*", "/", "*", "/", "-", "-", "\n", "a">>,
           <<" ", "/", "*", "/", "*", "a", "*", "/", "*", "/", "\n", "'", "b">>,
           <<"\n", "-", "-", "\n", "-", "-", "\n", "a">>,
           <<" ", "-", "-">>,
           <<"\n", "/", "*">>,
           <<"\n", "/", "*", "a">>,
           <<"/", "*", "/", "*", "*", "/", "a", "*", "/", "a">>,
           <<"$", "A", "$", "a", "$", "A", "$", "a">>,
           <<"a", "$", "$", "'", "$", "$", "'", "b", "'">>,
           <<"-", "-", "a", "\n", "\"", "b", "\"", "u", "&", "'", "c", "\\", "'", "'">>,
           <<"e", "'", "a", "\\">>,
           <<"-", "-", "\n", "a">>,
           <<"-", "-", "\n", "-", "-", "\n", "a">>,
           <<"/", "*", "*", "/", "a">>,
           <<"a", "'", "b", "'", "c", "\"", "d", "\"", "e", "'", "f", "'", "'">> }

StepChunks(d) == ShortTexts(d) \cup StepTexts(d) \cup {JsNull}

\* The checks before the loop end the call: the replayed error, null and,
\* in lib/pg-lexer.js, the ambiguous continuation.
EndsBeforeLoop(d, st, chunk) ==
    IF d = "mysql"
    THEN st.errorMessage # <<>> \/ (chunk = JsNull /\ st.delimiter # <<>>)
    ELSE \/ st.errorMessage # <<>>
         \/ chunk = JsNull
         \/ st.continuationAmbiguity /\ st.chunkIndex + 1 > 1

\* The closure state when the loop starts: ++chunkIndex and
\* continuationAmbiguity = /[\n\r]/.test(chunk) in lib/pg-lexer.js.
LoopEntry(d, st, chunk) ==
    IF d = "mysql" THEN st
    ELSE [st EXCEPT !.chunkIndex = st.chunkIndex + 1,
                    !.continuationAmbiguity = HasNewline(chunk)]

\* text = String(text), remainder = `${ chunk }`
StringOf(chunk) == IF chunk = JsNull THEN <<"n", "u", "l", "l">> ELSE chunk

TopLoop == [NoLoop EXCEPT !.at = "top"]

EscLoop == [NoLoop EXCEPT !.at = "esc"]

InnerLoop(subdelim) == [NoLoop EXCEPT !.at = "inner", !.subdelim = subdelim]

\* Handler '*' is entered by the loop `from` with the delimiter d and chunk.
BlockLoop(d, chunk, from) ==
    [at |-> "block", depth |-> Len(d) \div 2, chunk |-> chunk, subdelim |-> <<>>,
     from |-> from]

\* What one pass through a loop test leads to: the next loop test (Go), an
\* Error thrown out of the call (Fail), or return delimiter (Return).
Go(st, rem, lp) == [st |-> st, rem |-> rem, loop |-> lp, err |-> <<>>, returns |-> FALSE]

Fail(st, msg) == [st |-> st, rem |-> <<>>, loop |-> NoLoop, err |-> msg, returns |-> FALSE]

Return(st) == [st |-> st, rem |-> <<>>, loop |-> NoLoop, err |-> <<>>, returns |-> TRUE]

\* One iteration of while (text), n being match[0].length.
MysqlMatched(st, text, n) ==
    IF Len(text) > n
    THEN IF st.delimiter # <<>>
         THEN IF <<text[n + 1]>> = st.delimiter
              THEN Go([st EXCEPT !.delimiter = <<>>], Drop(text, n + 1), TopLoop)
              ELSE Fail(st, MysqlExpectedMsg(text[n + 1], text))
         ELSE IF text[n + 1] \in MysqlQuotes
              THEN Go([st EXCEPT !.delimiter = <<text[n + 1]>>], Drop(text, n + 1), TopLoop)
              ELSE Fail(st, MysqlExpectedDelimiterMsg(text))
    ELSE Go(st, Drop(text, n), TopLoop)

\* The test of while (text) and one iteration, or return delimiter.
MysqlRound(st, text) ==
    IF text = <<>> THEN Return(st)
    ELSE MysqlMatched(st, text,
                      IF st.delimiter # <<>> THEN MysqlBodyLen(text, st.delimiter[1], 0)
                      ELSE MysqlPrefixLen(text, 0))

\* remainder = consumeFromLeft(remainder) for a handler without a loop or
\* for no delimiter, r being the outcome of consumeFromLeft.
Consumed(r) == IF r.err # <<>> THEN Fail(r.st, r.err) ELSE Go(r.st, r.rem, TopLoop)

\* The test of while (remainder) in lexer(chunk) and one iteration, up to
\* the test of the loop of the handler it calls, or return delimiter.
PgRound(st, rem) ==
    IF rem = <<>> THEN Return(st)
    ELSE IF st.delimiter # <<>> /\ Last(st.delimiter) = "*"
    THEN Go(ResetAmbiguity(st, "*"), rem, BlockLoop(st.delimiter, rem, "top"))
    ELSE IF st.delimiter # <<>> /\ Last(st.delimiter) = "e"
    THEN Go(ResetAmbiguity(st, "e"), rem, EscLoop)
    ELSE Consumed(ConsumeFromLeft(st, rem))

\* A handler called by the loop lp.from returns [ d, rem ]: the assignment
\* to [ delimiter, remainder ] or to [ subdelim, remainder ].
HandlerReturns(st, lp, d, rem) ==
    IF lp.from = "inner" THEN Go(st, rem, InnerLoop(d))
    ELSE Go([st EXCEPT !.delimiter = d], rem, TopLoop)

\* After the loop of handler '*': the throw or return [ null, remainder ].
BlockExit(st, rem, lp) ==
    IF lp.depth # 0 THEN Fail(st, <<"Unterminated block comment: /*">> \o lp.chunk)
    ELSE HandlerReturns(st, lp, <<>>, rem)

\* One iteration of the loop of handler '*', i being match.index.
BlockMatched(st, rem, lp, i) ==
    IF i = 0 THEN BlockExit(st, rem, lp)
    ELSE IF SubSeq(rem, i, i + 1) = <<"/", "*">>
    THEN Go(st, Drop(rem, i + 1), [lp EXCEPT !.depth = lp.depth + 1])
    ELSE IF lp.depth - 1 = 0
    THEN BlockExit(st, Drop(rem, i + 1), [lp EXCEPT !.depth = 0])
    ELSE Go(st, Drop(rem, i + 1), [lp EXCEPT !.depth = lp.depth - 1])

\* The test of while (remainder) in handler '*' and one iteration.
BlockRound(st, rem, lp) ==
    IF rem = <<>> THEN BlockExit(st, rem, lp)
    ELSE BlockMatched(st, rem, lp, BlockTokenIndex(rem))

\* An outer loop of handler 'e' that goes on when nothing was consumed.
EscMatchedGoesOn(st, rem, w, subdelim) ==
    IF subdelim = <<>> THEN Go(st, Drop(rem, w), EscLoop)
    ELSE IF subdelim = <<"'">>
    THEN Go([st EXCEPT !.delimiter = <<"e", "'">>], Drop(rem, w + 1), TopLoop)
    ELSE Go(st, Drop(rem, w + Len(subdelim)), InnerLoop(subdelim))

\* One iteration of the outer loop of handler 'e', the match being w
\* characters of white space and subdelim.
EscMatched(st, rem, w, subdelim) ==
    IF w + Len(subdelim) = 0 THEN Go([st EXCEPT !.delimiter = <<>>], rem, TopLoop)
    ELSE IF subdelim = <<>> THEN Go(st, Drop(rem, w), EscLoop)
    ELSE IF subdelim = <<"'">>
    THEN Go([st EXCEPT !.delimiter = <<"e", "'">>], Drop(rem, w + 1), TopLoop)
    ELSE Go(st, Drop(rem, w + Len(subdelim)), InnerLoop(subdelim))

\* The test of the outer while (remainder) of handler 'e' and one
\* iteration up to the test of the inner loop, or return [ delimiter,
\* remainder ].
EscRound(st, rem) ==
    IF rem = <<>> THEN Go(st, rem, TopLoop)
    ELSE EscMatched(st, rem, WsRunLen(rem, 0),
                    EscContinuationSubdelim(Drop(rem, WsRunLen(rem, 0))))

\* [ subdelim, remainder ] = handler(subdelim, remainder) for a handler
\* without a loop, h being what it returned or threw.
InnerAssign(st, h) == IF h.err # <<>> THEN Fail(st, h.err) ELSE Go(st, h.rem, InnerLoop(h.d))

\* The test of while (remainder && subdelim) and one iteration, up to the
\* test of the loop of handler '*' if that is the handler.
InnerRound(st, rem, lp) ==
    IF rem = <<>> \/ lp.subdelim = <<>> THEN Go(st, rem, EscLoop)
    ELSE IF Last(lp.subdelim) = "*" THEN Go(st, rem, BlockLoop(lp.subdelim, rem, "inner"))
    ELSE InnerAssign(st, Handler(lp.subdelim, rem))

\* The call ends with the closure state st: it returned (err is <<>>) or
\* threw err.
Ended(st, returned, err) ==
    /\ lexer' = st
    /\ ret' = returned
    /\ thrown' = err
    /\ pc' = "lexer"
    /\ unread' = <<>>
    /\ loop' = NoLoop

\* lexer(chunk) up to the first test of its loop, or to its end if it
\* ends before.
EnterLexer ==
    /\ pc = "lexer"
    /\ Len(fed) < MaxStepFeeds
    /\ \E chunk \in StepChunks(dialect) :
          /\ fed' = Append(fed, chunk)
          /\ steps' = 0
          /\ IF EndsBeforeLoop(dialect, lexer, chunk)
             THEN Ended(LexerCall(dialect, lexer, chunk).st,
                        LexerCall(dialect, lexer, chunk).ret,
                        LexerCall(dialect, lexer, chunk).err)
             ELSE /\ lexer' = LoopEntry(dialect, lexer, chunk)
                  /\ unread' = StringOf(chunk)
                  /\ loop' = TopLoop
                  /\ pc' = "scanning"
                  /\ UNCHANGED <<ret, thrown>>
    /\ UNCHANGED <<dialect, chunks, delimiters, values, options, result, slots, minted,
                   escCall, calls, peer, lastIndex>>

\* The state after a pass through a loop test with the outcome o; a throw
\* sets errorMessage (mysql) or replayError's message (pg).
Passed(o) ==
    /\ steps' = steps + 1
    /\ IF o.err # <<>> THEN Ended([o.st EXCEPT !.errorMessage = o.err], <<>>, o.err)
       ELSE IF o.returns THEN Ended(o.st, o.st.delimiter, <<>>)
       ELSE /\ lexer' = o.st
            /\ unread' = o.rem
            /\ loop' = o.loop
            /\ UNCHANGED <<ret, thrown, pc>>
    /\ UNCHANGED <<dialect, fed, chunks, delimiters, values, options, result, slots,
                   minted, escCall, calls, peer, lastIndex>>

Scanning(at) == pc = "scanning" /\ loop.at = at /\ steps < MaxSteps

\* while (text) { ... } return delimiter
MysqlIteration ==
    /\ Scanning("top")
    /\ dialect = "mysql"
    /\ \E o \in {MysqlRound(lexer, unread)} : Passed(o)

\* while (remainder) { remainder = consumeFromLeft(remainder) } return delimiter
TopIteration ==
    /\ Scanning("top")
    /\ dialect = "pg"
    /\ \E o \in {PgRound(lexer, unread)} : Passed(o)

\* while (remainder) { ... } of handler '*', then the throw or the return
BlockIteration ==
    /\ Scanning("block")
    /\ \E o \in {BlockRound(lexer, unread, loop)} : Passed(o)

\* The outer while (remainder) { ... } of handler 'e', then the return
EscIteration ==
    /\ Scanning("esc")
    /\ \E o \in {EscRound(lexer, unread)} : Passed(o)

\* while (remainder && subdelim) { ... } of handler 'e'
InnerIteration ==
    /\ Scanning("inner")
    /\ \E o \in {InnerRound(lexer, unread, loop)} : Passed(o)

Iteration ==
    MysqlIteration \/ TopIteration \/ BlockIteration \/ EscIteration \/ InnerIteration

InitSteps == InitLexer

NextSteps == EnterLexer \/ Iteration

SpecSteps == InitSteps /\ [][NextSteps]_vars

\* A call that runs goes on running: nothing else is scheduled while the
\* function executes.
SpecStepsFair == SpecSteps /\ WF_vars(Iteration)

----------------------------------------------------------------------------
(* The claims of the specification, stated over the specifications above.  *)

\* A value that is, or holds at some depth, a trusted fragment.
RECURSIVE HasFragment(_)
HasFragment(v) == v.t = "frag" \/ \E i \in 1..Len(v.elems) : HasFragment(v.elems[i])

\* C1 (Spec): no value breaks out of its slot.  When the lexer accepted the
\* chunks, none of the values is a trusted fragment and interpolation
\* returned a result, a new lexer of the same dialect that is fed the whole
\* result as one chunk and then null throws at neither call.
C1_NoValueBreaksOut ==
    (pc = "done" /\ \A i \in 1..Len(values) : ~HasFragment(values[i]))
        => RunLexer(dialect, <<result, JsNull>>).err = <<>>

\* The context of slot i: what a new lexer returns for chunk i when it is
\* fed the chunks 1..i in order.
SlotContext(i) == RunLexer(dialect, Take(chunks, i)).ret

\* The text an escaper returns for the value of slot i in context ctx.
SlotText(i, ctx) ==
    IF ctx # <<>> THEN escapeDelimited(dialect, values[i], ctx, options.forbidQualified).out
    ELSE Escape(dialect, values[i], options.stringifyObjects, TimeZoneOf(options))

C2_SlotUsesContext(i) ==
    IF SlotContext(i) # <<>>
    THEN /\ slots[i].fn = "escapeDelimited"
         /\ slots[i].delimiter = SlotContext(i)
         /\ slots[i].escaped = SlotText(i, SlotContext(i))
    ELSE /\ slots[i].fn = "escape"
         /\ slots[i].escaped
                = DefangMergeHazard(slots[i].before, SlotText(i, <<>>), chunks[i + 1])

\* C2 (Spec): the driver feeds the chunks to one lexer in order, each once,
\* and then null; slot i is escaped by escapeDelimited with the context the
\* lexer returned after chunk i when there is one, and by escape followed
\* by defangMergeHazard when there is none; there are fewer slots than
\* chunks, so the context after the last chunk is used for no slot.
C2_DriverFeedsInOrder ==
    /\ fed = Take(chunks \o <<JsNull>>, Len(fed))
    /\ pc \in {"interpolate", "done"} => fed = chunks \o <<JsNull>>
    /\ Len(slots) <= Len(chunks) - 1
    /\ \A i \in 1..Len(slots) : C2_SlotUsesContext(i)

\* C2 witness: a finished call with two slots, the first inside a quoted
\* construct and the second at top level.
C2_Witness ==
    /\ pc = "done"
    /\ Len(slots) = 2
    /\ slots[1].fn = "escapeDelimited"
    /\ slots[2].fn = "escape"
    /\ delimiters[1] # delimiters[2]

QuoteChars == {"\"", "'", "BT"}

\* The text the claim C6 asks for at a slot that has no context.
C6_SetOff(before, bare, after) ==
    (IF bare[1] \in QuoteChars /\ before # <<>> /\ bare[1] = Last(before)
     THEN <<" ">> ELSE <<>>)
    \o bare
    \o (IF Last(bare) \in QuoteChars /\ after # <<>> /\ Last(bare) = after[1]
        THEN <<" ">> ELSE <<>>)

C6_SlotIsSetOff(i) ==
    (/\ slots[i].fn = "escape"
     /\ SlotText(i, <<>>) # <<>>
     /\ (SlotText(i, <<>>)[1] \in QuoteChars \/ Last(SlotText(i, <<>>)) \in QuoteChars))
        => slots[i].escaped = C6_SetOff(slots[i].before, SlotText(i, <<>>), chunks[i + 1])

\* C6 (Spec): at a slot without context, a text that starts with the quote
\* character that ends the output so far gets one space before it, a text
\* that ends with the quote character that starts the next chunk gets one
\* space after it, and otherwise the text is inserted unchanged.
C6_MergeHazardDefense == \A i \in 1..Len(slots) : C6_SlotIsSetOff(i)

\* Chunk 1, then for each of the first n slots its text and the next chunk.
RECURSIVE Assembled(_)
Assembled(n) ==
    IF n = 0 THEN chunks[1] ELSE Assembled(n - 1) \o slots[n].escaped \o chunks[n + 1]

SetOffs(bare) == { bare, <<" ">> \o bare, bare \o <<" ">>, <<" ">> \o bare \o <<" ">> }

\* C7 (Spec): the output is chunk 1 followed, slot by slot, by the escaped
\* text of the slot, with at most one space on either side, and the next
\* chunk; a template without slots yields its only chunk.
C7_OutputKeepsChunks ==
    /\ pc \in {"interpolate", "done"} => result = Assembled(Len(slots))
    /\ \A i \in 1..Len(slots) : slots[i].escaped \in SetOffs(SlotText(i, slots[i].delimiter))
    /\ pc = "done" => (Len(slots) = Len(chunks) - 1 /\ minted = <<Assembled(Len(chunks) - 1)>>)
    /\ (pc = "done" /\ Len(chunks) = 1) => minted = <<chunks[1]>>

\* C7 witness: a finished call with two slots, one of them set off by a space.
C7_Witness ==
    /\ pc = "done"
    /\ Len(slots) = 2
    /\ \E i \in 1..2 : slots[i].escaped # SlotText(i, slots[i].delimiter)
    /\ chunks[2] # <<>>

\* C8 (Spec): decorateOutput is called at most once, only when the lexer
\* accepted the chunks and every slot was escaped without an error, and
\* with the whole text; a call that threw has minted nothing.
C8_MintOnceAfterAllSlots ==
    /\ Len(minted) <= 1
    /\ minted # <<>> =>
          /\ pc = "done"
          /\ thrown = <<>>
          /\ fed = chunks \o <<JsNull>>
          /\ Len(values) = Len(chunks) - 1
          /\ Len(slots) = Len(chunks) - 1
          /\ minted[1] = Assembled(Len(chunks) - 1)
    /\ pc = "failed" => (thrown # <<>> /\ minted = <<>>)
    /\ thrown # <<>> => (pc = "failed" /\ minted = <<>>)

\* C8 witness: a call with two slots that minted its text.
C8_Witness == minted # <<>> /\ Len(slots) = 2 /\ slots[2].escaped # <<>>

\* C3 (SpecLexer): once a call on a lexer has thrown, every later call on
\* it, with a chunk or with null, throws the same message and returns no
\* context.
C3_StickyFailure == [][thrown # <<>> => (thrown' = thrown /\ ret' = <<>>)]_vars

\* C3 witness: a Postgres lexer whose first call threw and that was then
\* called with null and with a chunk.
C3_Witness ==
    /\ dialect = "pg"
    /\ Len(fed) >= 3
    /\ RunLexer(dialect, Take(fed, 1)).err # <<>>
    /\ fed[2] = JsNull
    /\ fed[3] # JsNull
    /\ thrown # <<>>

NoNull(args) == \A i \in 1..Len(args) : args[i] # JsNull

\* The chunks fed before the call that signals the end of input.
FedChunks == Take(fed, Len(fed) - 1)

EndOfInput == fed # <<>> /\ Last(fed) = JsNull /\ NoNull(FedChunks)

\* C4 (SpecLexer): when the literal text of the chunks leaves a string, an
\* identifier, a comment or a dollar quote open, lexer(null) throws, and
\* unless a chunk was already rejected the message names the open delimiter.
C4_UnclosedConstructThrows ==
    (EndOfInput /\ RefRead(dialect, FedChunks).open # <<>>)
        => /\ thrown # <<>>
           /\ RunLexer(dialect, FedChunks).err = <<>>
                 => Contains(thrown, RefRead(dialect, FedChunks).open)

\* C5 (SpecLexer): when every construct the literal text opens is closed
\* again, the lexer returns no context for the chunk that closes the last
\* one, and lexer(null) after the chunks returns no context and does not
\* throw.
C5_BalancedTextReturnsNone ==
    /\ (fed # <<>> /\ NoNull(fed) /\ RefRead(dialect, fed).open = <<>>)
          => (thrown = <<>> /\ ret = <<>>)
    /\ (EndOfInput /\ RefRead(dialect, FedChunks).open = <<>>)
          => (thrown = <<>> /\ ret = <<>>)

\* The value v without any toSqlString method, at any depth.
RECURSIVE WithoutToSqlString(_)
WithoutToSqlString(v) ==
    [v EXCEPT !.sql = <<>>,
              !.elems = [i \in 1..Len(v.elems) |-> WithoutToSqlString(v.elems[i])]]

\* The value v with every plain object replaced by the string that its
\* toString method returns.
RECURSIVE Stringified(_)
Stringified(v) ==
    IF v.t = "obj" THEN VStr(v.s)
    ELSE [v EXCEPT !.elems = [i \in 1..Len(v.elems) |-> Stringified(v.elems[i])]]

\* The same for the values of the properties of v only.
StringifiedInside(v) == [v EXCEPT !.elems = [i \in 1..Len(v.elems) |-> Stringified(v.elems[i])]]

\* What the entry point fn returns or throws for the value v.
EntryPoint(fn, v) ==
    CASE fn = "escape" -> R(Escape(dialect, v, options.stringifyObjects, TimeZoneOf(options)))
      [] fn = "escapeId" ->
            IF dialect = "mysql" THEN MysqlEscapeId(v, options.forbidQualified)
            ELSE PgEscapeId(v, options.forbidQualified, options.unicode)
      [] fn = "escapeDelimited" ->
            escapeDelimited(dialect, v, delimiters[1], options.forbidQualified)

\* The text of a toSqlString method of the values the model draws.
ToSqlStringMarker == "z"

\* The text a toString method or a string of the values the model draws holds.
Payload == "x"

\* C9 (SpecEscape): the methods of an object never yield raw SQL.  The
\* outcome of a call does not depend on any toSqlString method and holds
\* none of its text; an object is escaped exactly as the string its
\* toString returns (the properties of an object that escape lists as
\* key = value pairs likewise); and when the value holds no trusted
\* fragment, no text of a string or of a toString lies outside the quotes
\* of what escape returns.
C9_ObjectMethodsNotTrusted ==
    escCall.fn # "none" =>
        /\ \A i \in 1..Len(escCall.out) : escCall.out[i] # ToSqlStringMarker
        /\ [out |-> escCall.out, err |-> escCall.err]
              = EntryPoint(escCall.fn, WithoutToSqlString(values[1]))
        /\ [out |-> escCall.out, err |-> escCall.err]
              = EntryPoint(escCall.fn,
                           IF /\ escCall.fn = "escape"
                              /\ ~options.stringifyObjects
                              /\ values[1].t = "obj"
                           THEN StringifiedInside(values[1])
                           ELSE Stringified(values[1]))
        /\ (escCall.fn = "escape" /\ ~HasFragment(values[1]))
              => \A i \in 1..Len(RefRead(dialect, <<escCall.out>>).top) :
                    RefRead(dialect, <<escCall.out>>).top[i] # Payload

\* C9 witness: escape listed the properties of an object, one of which is
\* an object that has a toSqlString method.
C9_Witness ==
    /\ escCall.fn = "escape"
    /\ ~options.stringifyObjects
    /\ values[1].t = "obj"
    /\ \E i \in 1..Len(values[1].elems) :
          /\ values[1].elems[i].elems[1].t = "obj"
          /\ values[1].elems[i].elems[1].sql # <<>>
    /\ Contains(escCall.out, <<Payload>>)

\* The contexts that stand for a string, an identifier or a dollar quote.
IsQuoteContext(d, ctx) ==
    IF d = "mysql" THEN ctx \in { <<"'">>, <<"\"">>, <<"BT">> }
    ELSE ctx \in StringBodyKeys \/ ctx[1] = "$"

\* The delimiter that closes what ctx opens.
ClosingDelimiter(ctx) == IF ctx[1] = "$" THEN ctx ELSE <<Last(ctx)>>

\* The text of the call between the delimiters of its context.
Wrapped == delimiters[1] \o escCall.out \o ClosingDelimiter(delimiters[1])

\* C10 (SpecEscape): the text escapeDelimited returns for a string, an
\* identifier or a dollar quote context, put between the delimiters of the
\* context, is read by a new lexer of the dialect without an error: the
\* text holds no dangling escape and does not close the construct itself,
\* so the lexer is still inside a construct before the closing delimiter
\* that was added, and neither the chunk nor lexer(null) throws.
C10_RoundTrip ==
    (/\ escCall.fn = "escapeDelimited"
     /\ escCall.err = <<>>
     /\ IsQuoteContext(dialect, delimiters[1]))
        => /\ RunLexer(dialect, <<Wrapped, JsNull>>).err = <<>>
           /\ RunLexer(dialect, <<delimiters[1] \o escCall.out>>).ret # <<>>

----------------------------------------------------------------------------
(* Claims about the escaping of text (SpecText).                           *)

\* The escape table of the free-standing string escaper of dialect d.
EscapeTable(d) == IF d = "mysql" THEN MYSQL_CHARS_ESCAPE_MAP ELSE PG_E_CHARS_ESCAPE_MAP

\* The table characters whose escape sequence stands at position i of text.
EscapedAt(d, text, i) ==
    { c \in CHARS_GLOBAL_REGEXP :
        /\ i + Len(EscapeTable(d)[c]) - 1 <= Len(text)
        /\ SubSeq(text, i, i + Len(EscapeTable(d)[c]) - 1) = EscapeTable(d)[c] }

\* The inverse of the escape table applied to text from position i on: an
\* escape sequence yields its character, any other character itself.
RECURSIVE Unescape(_, _, _)
Unescape(d, text, i) ==
    IF i > Len(text) THEN <<>>
    ELSE IF EscapedAt(d, text, i) # {}
    THEN LET c == CHOOSE k \in EscapedAt(d, text, i) : TRUE
         IN  <<c>> \o Unescape(d, text, i + Len(EscapeTable(d)[c]))
    ELSE <<text[i]>> \o Unescape(d, text, i + 1)

\* The body of a quoted string: the text between '...' or e'...'.
StringBody(quoted) ==
    IF quoted # <<>> /\ quoted[1] = "e"
    THEN SubSeq(quoted, 3, Len(quoted) - 1)
    ELSE SubSeq(quoted, 2, Len(quoted) - 1)

----------------------------------------------------------------------------
(* Claims about single chunks fed to a lexer (SpecLexer).                  *)

\* The lexer instance before its latest call.
LexerBefore == RunLexer(dialect, FedChunks).st

\* The latest call was lexer(chunk) on an instance that had not thrown and
\* that was scanning top-level text or the text after an e'...' string.
FedAtTopLevel ==
    /\ fed # <<>>
    /\ NoNull(fed)
    /\ LexerBefore.errorMessage = <<>>
    /\ LexerBefore.delimiter \in {<<>>, EscContinuation}

\* The reference reading of the latest chunk alone, from where the lexer was.
LastChunkRead ==
    RefChunk(dialect, [RefInit EXCEPT !.afterE = (LexerBefore.delimiter = EscContinuation)],
             Last(fed), 1)

LineComments == {<<"-", "-">>, <<"#">>}

\* C12 (SpecLexer): a chunk that starts a line comment where the lexer
\* scans top-level or continuation text, and holds no line terminator
\* after it, makes the call throw.
C12_OpenLineCommentThrows ==
    (FedAtTopLevel /\ LastChunkRead.open \in LineComments) => thrown # <<>>

\* The latest call was lexer(chunk) on a Postgres instance that had not
\* thrown and was inside a dollar-quoted string; its tag is DollarTag.
DollarTag == LexerBefore.delimiter

FedInDollarQuote ==
    /\ dialect = "pg"
    /\ fed # <<>>
    /\ Last(fed) # JsNull
    /\ LexerBefore.errorMessage = <<>>
    /\ DollarTag # <<>>
    /\ DollarTag[1] = "$"

\* The text of the latest chunk from its last dollar sign on.
DollarSuffix == Drop(Last(fed), LastIndexOf(Last(fed), "$") - 1)

\* The text of the latest chunk after the first occurrence of the tag.
AfterDollarTag == Drop(Last(fed), IndexOf(Last(fed), DollarTag) - 1 + Len(DollarTag))

\* C13 (SpecLexer): a chunk fed inside a dollar-quoted string with tag T.
\* When the chunk holds T, the string ends at the first T: the call ends
\* as a call at top level with the text after that T does.  When it does
\* not hold T and its text from the last $ on is a prefix of T, the call
\* throws a merge hazard error that names that text and T.  Otherwise the
\* call returns T.
C13_DollarQuoteChunk ==
    FedInDollarQuote =>
        IF IndexOf(Last(fed), DollarTag) > 0
        THEN /\ ret = RunLexer("pg", <<AfterDollarTag>>).ret
             /\ thrown = RunLexer("pg", <<AfterDollarTag>>).err
        ELSE IF LastIndexOf(Last(fed), "$") > 0 /\ StartsWith(DollarTag, DollarSuffix)
        THEN /\ thrown # <<>>
             /\ thrown[1] = "merge hazard '"
             /\ Contains(thrown, DollarSuffix)
             /\ Contains(thrown, DollarTag)
        ELSE ret = DollarTag /\ thrown = <<>>

\* The latest call was lexer(chunk) or lexer(null) on a Postgres instance
\* that had been fed chunks only and had not thrown.
FedAfterChunks ==
    /\ dialect = "pg"
    /\ fed # <<>>
    /\ NoNull(FedChunks)
    /\ LexerBefore.errorMessage = <<>>

\* The lexer instance before the chunk that was fed before the latest call.
LexerBeforePrevious == RunLexer(dialect, Take(fed, Len(fed) - 2)).st

\* The reference reading of the chunk fed before the latest call, from
\* where the lexer was: at top level or inside a comment.
PreviousChunkRead ==
    RefChunk(dialect,
             [RefInit EXCEPT !.open = LexerBeforePrevious.delimiter,
                             !.depth = Len(LexerBeforePrevious.delimiter) \div 2],
             fed[Len(fed) - 1], 1)

PgComments == {<<"-", "-">>, <<"/", "*">>}

\* The chunk fed before the latest call has index 1 or more, holds a line
\* break and consists of top-level whitespace and comments only.
PreviousChunkIsBlank ==
    /\ Len(fed) >= 3
    /\ HasNewline(fed[Len(fed) - 1])
    /\ LexerBeforePrevious.delimiter \in {<<>>} \cup PgComments
    /\ ~PreviousChunkRead.quoted
    /\ ~HasNonWs(PreviousChunkRead.top)

\* C15 (SpecLexer): feeding a chunk throws the ambiguous continuation
\* error exactly when the chunk before it has index 1 or more, holds a
\* line break and consists of top-level whitespace and comments only;
\* lexer(null) never throws it.
C15_AmbiguousContinuation ==
    FedAfterChunks =>
        ((thrown # <<>> /\ thrown[1] = "Potential for ambiguous string continuation at ")
            <=> (Last(fed) # JsNull /\ PreviousChunkIsBlank))

----------------------------------------------------------------------------
(* Claims about escapeDelimited in a dollar-quote context (SpecEscape).    *)

\* The text of a value: `${ value }`, and for a Buffer its bytes.
ValueText(v) == IF v.t = "buf" THEN v.s ELSE JsString(v)

\* escapeDelimited was called for Postgres with a dollar-quote tag.
\* A dollar sign, a tag without a dollar sign, a dollar sign.
DollarQuoteForm(delimiter) ==
    /\ Len(delimiter) >= 2
    /\ delimiter[1] = "$"
    /\ Last(delimiter) = "$"
    /\ \A i \in 2..(Len(delimiter) - 1) : delimiter[i] # "$"

InDollarContext ==
    /\ dialect = "pg"
    /\ escCall.fn = "escapeDelimited"
    /\ DollarQuoteForm(delimiters[1])

\* The text ends, from its last dollar sign on, with a prefix of the tag.
EndsWithTagPrefix(text, tag) ==
    /\ LastIndexOf(text, "$") > 0
    /\ StartsWith(tag, Drop(text, LastIndexOf(text, "$") - 1))

\* Literal text before and after a slot inside a dollar-quoted string.
BodiesBefore == { <<>>, <<"a">>, <<"$">>, <<"$", "a">>, <<"x", "$", "b">>, <<"a", "$", " ">> }
BodiesAfter == { <<>>, <<"$">>, <<"a", "$">>, <<"$", "a", "$">>, <<"x">> }

\* The lexer accepts the literal text inside the string opened by the tag.
AcceptedInside(tag, body) ==
    /\ RunLexer("pg", <<tag, body>>).err = <<>>
    /\ RunLexer("pg", <<tag, body>>).ret = tag

\* C14 (SpecEscape): in a dollar-quote context with tag T, escapeDelimited
\* returns the text of the value unchanged when the text neither holds T
\* nor ends, from its last dollar sign on, with a prefix of T, and throws
\* Cannot embed otherwise; so the first T in literal text, returned text
\* and literal text put together never holds a character of the value.
C14_DollarQuoteEmbedding ==
    InDollarContext =>
        /\ IF \/ Contains(ValueText(values[1]), delimiters[1])
              \/ EndsWithTagPrefix(ValueText(values[1]), delimiters[1])
           THEN escCall.err # <<>> /\ escCall.err[1] = "Cannot embed "
           ELSE escCall.err = <<>> /\ escCall.out = ValueText(values[1])
        /\ escCall.err = <<>> =>
              \A before \in BodiesBefore, after \in BodiesAfter :
                  AcceptedInside(delimiters[1], before) =>
                      \/ ~Contains(before \o escCall.out \o after, delimiters[1])
                      \/ IndexOf(before \o escCall.out \o after, delimiters[1])
                            > Len(before) + Len(escCall.out)

\* C14 witness: for the tag $a$ a text that holds a dollar sign, but
\* neither the tag nor a prefix of it at its end, was returned unchanged.
C14_Witness ==
    /\ InDollarContext
    /\ delimiters[1] = <<"$", "a", "$">>
    /\ escCall.err = <<>>
    /\ Contains(escCall.out, <<"$">>)
    /\ escCall.out = ValueText(values[1])

----------------------------------------------------------------------------
(* Claims about calling a tag again (SpecMemo).                            *)

\* What the tag holds and has returned or thrown is what a new lexer and a
\* new run of the loop give for the chunks and the values of this call.
AgreesWithLexingAgain ==
    /\ pc = "computeStatic" =>
          \A i \in 1..Len(delimiters) : delimiters[i] = RunLexer(dialect, Take(chunks, i)).ret
    /\ (pc = "failed" /\ values = <<>>) =>
          /\ thrown # <<>>
          /\ thrown = ComputeStatic(dialect, chunks).err
    /\ (pc \in {"interpolate", "done"} \/ (pc = "failed" /\ values # <<>>)) =>
          /\ ComputeStatic(dialect, chunks).err = <<>>
          /\ delimiters = ComputeStatic(dialect, chunks).delimiters
    /\ pc = "interpolate" =>
          R(result) = InterpolateSqlIntoFragment(dialect, options,
                          ComputeStatic(dialect, chunks).delimiters, chunks, values, Len(values))
    /\ pc = "done" =>
          R(Last(minted)) = InterpolateSqlIntoFragment(dialect, options,
                          ComputeStatic(dialect, chunks).delimiters, chunks, values, Len(values))
    /\ (pc = "failed" /\ values # <<>>) =>
          /\ thrown # <<>>
          /\ Throw(thrown) = InterpolateSqlIntoFragment(dialect, options,
                          ComputeStatic(dialect, chunks).delimiters, chunks, values, Len(values))

\* A step of the loop or a further call leaves the chunks and the
\* delimiters kept for the template as they are.
KeepsStatic ==
    /\ chunks' = chunks
    /\ (pc \in {"interpolate", "done"} \/ (pc = "failed" /\ values # <<>>)) =>
          delimiters' = delimiters

----------------------------------------------------------------------------
(* Claims about two lexer instances (SpecPair).                            *)

----------------------------------------------------------------------------
(* Claims about calls of the escapers one after the other (SpecCalls).     *)

\* C18 (SpecCalls): whatever calls came before, and wherever the one before
\* left lastIndex of the character pattern, escape and escapeDelimited
\* return or throw what they do when lastIndex is 0, which for a string is
\* what a single call of the entry point gives.
C18_EscapersKeepNoState ==
    escCall.fn # "none" =>
        /\ [out |-> escCall.out, err |-> escCall.err]
              = [out |-> EscapeCall(dialect, escCall.fn, Last(values), delimiters[1], 0).out,
                 err |-> EscapeCall(dialect, escCall.fn, Last(values), delimiters[1], 0).err]
        /\ (Last(values).t = "str" /\ escCall.fn = "escape")
              => escCall.err = <<>> /\ escCall.out = Escape(dialect, Last(values), FALSE, NoTimeZone)
        /\ (Last(values).t = "str" /\ escCall.fn = "escapeDelimited")
              => [out |-> escCall.out, err |-> escCall.err]
                    = escapeDelimited(dialect, Last(values), delimiters[1], FALSE)

\* C18 witness: a call found lastIndex behind the first character, left
\* there by a call that threw inside the loop, and escaped the first
\* character of its string.
C18_Witness ==
    /\ escCall.fn = "escape"
    /\ escCall.before > 0
    /\ escCall.err = <<>>
    /\ Last(values) = VStr(<<"'", "a", "\\">>)
    /\ escCall.out = <<"e", "'", "'", "'", "a", "\\", "\\", "'">>

----------------------------------------------------------------------------
(* Claims about quotes in comments (SpecLexer).                            *)

\* The latest call was lexer(chunk) on an instance that had not thrown and
\* was outside every string, identifier and comment, the chunk before not
\* being one that leaves the continuation of a string in doubt.
FedOutsideAll ==
    /\ fed # <<>>
    /\ NoNull(fed)
    /\ LexerBefore.errorMessage = <<>>
    /\ LexerBefore.delimiter = <<>>
    /\ ~PreviousChunkIsBlank

\* The position of the first # of the latest chunk, and the quote behind it.
HashAt == IndexOf(Last(fed), <<"#">>)
QuoteAfterHash == Last(fed)[HashAt + 1]

\* The latest chunk is top-level text without quotes, then #, then a quote
\* and perhaps a line break.
HashThenQuote ==
    /\ HashAt > 0
    /\ Len(Last(fed)) > HashAt
    /\ QuoteAfterHash \in {"'", "\""}
    /\ \A i \in 1..(HashAt - 1) : Last(fed)[i] = "a"
    /\ Drop(Last(fed), HashAt + 1) \in {<<>>, <<"\n">>}

\* The latest chunk is a -- comment up to its line break, or a closed block
\* comment, with a quote inside.
QuoteInClosedComment ==
    \/ /\ StartsWith(Last(fed), <<"-", "-", " ">>)
       /\ Last(Last(fed)) = "\n"
       /\ IndexOf(Last(fed), <<"\n">>) = Len(Last(fed))
       /\ Contains(Last(fed), <<"'">>)
    \/ /\ StartsWith(Last(fed), <<"/", "*">>)
       /\ IndexOf(Last(fed), <<"*", "/">>) = Len(Last(fed)) - 1
       /\ Len(Last(fed)) > 4
       /\ Contains(Last(fed), <<"'">>)

\* C19 (SpecLexer): outside every construct, a quote behind # on the same
\* line never becomes the context of the MySQL lexer, which returns None
\* when the line ends in the chunk and throws for the open comment when it
\* does not, while the Postgres lexer returns the quote as the context; a
\* quote inside a -- comment that ends with its line, or inside a closed
\* block comment, leaves the context None in both dialects.
C19_QuotesInComments ==
    FedOutsideAll =>
        /\ (HashThenQuote /\ dialect = "mysql") =>
              /\ ret = <<>>
              /\ (thrown = <<>>) <=> Contains(Last(fed), <<"\n">>)
              /\ RunLexer(dialect, fed).st.delimiter = <<>>
        /\ (HashThenQuote /\ dialect = "pg") =>
              /\ thrown = <<>>
              /\ ret = <<QuoteAfterHash>>
        /\ QuoteInClosedComment =>
              /\ thrown = <<>>
              /\ ret = <<>>

\* C19 witness: the Postgres lexer has returned the quote behind # as the
\* context, after some other chunk.
C19_Witness ==
    /\ FedOutsideAll
    /\ HashThenQuote
    /\ dialect = "pg"
    /\ Len(fed) >= 2
    /\ ret = <<"'">>

----------------------------------------------------------------------------
(* Claims about the forms of Postgres strings (SpecText).                  *)

\* escape was called with a string for Postgres.
PgTextEscaped == dialect = "pg" /\ escCall.fn = "escape"

\* The characters of the escape table in the value, and the body of a
\* string in which each of them is replaced: a single quote by two, any
\* other one by a sequence that starts with a backslash.
TableCharsOf(text) == { text[i] : i \in 1..Len(text) } \cap CHARS_GLOBAL_REGEXP
BackslashBody(text) ==
    Flatten([i \in 1..Len(text) |->
        IF text[i] = "'" THEN <<"'", "'">>
        ELSE IF text[i] \in CHARS_GLOBAL_REGEXP
        THEN CASE text[i] = "NUL" -> <<"\\", "x", "0", "0">>
               [] text[i] = "BS" -> <<"\\", "b">>
               [] text[i] = "\t" -> <<"\\", "t">>
               [] text[i] = "\n" -> <<"\\", "n">>
               [] text[i] = "\r" -> <<"\\", "r">>
               [] text[i] = "SUB" -> <<"\\", "x", "1", "a">>
               [] OTHER -> <<"\\", text[i]>>
        ELSE <<text[i]>>])

\* The forms for a value without table characters and for a value with a
\* table character that is no single quote.
PlainOrBackslashForm ==
    /\ escCall.err = <<>>
    /\ TableCharsOf(values[1].s) = {} => escCall.out = <<"'">> \o values[1].s \o <<"'">>
    /\ TableCharsOf(values[1].s) \ {"'"} # {} =>
          escCall.out = <<"e", "'">> \o BackslashBody(values[1].s) \o <<"'">>

\* C20 as stated (SpecText): Postgres escape returns '...' for a string
\* without table characters, e'...' with backslash escapes for a string
\* with a table character other than the single quote, and the plain '...'
\* form with each quote doubled for a string whose only table characters
\* are single quotes.
C20_PgStringForms ==
    PgTextEscaped =>
        /\ PlainOrBackslashForm
        /\ TableCharsOf(values[1].s) = {"'"} =>
              escCall.out = <<"'">> \o BackslashBody(values[1].s) \o <<"'">>

\* C20 amended (SpecText): as above, but a string whose only table
\* characters are single quotes is returned in the e'...' form as well,
\* with each quote doubled.
C20_PgStringFormsQuotesForceE ==
    PgTextEscaped =>
        /\ PlainOrBackslashForm
        /\ TableCharsOf(values[1].s) = {"'"} =>
              escCall.out = <<"e", "'">> \o BackslashBody(values[1].s) \o <<"'">>

\* C20 witness: a string whose only table character is a single quote was
\* escaped.
C20_Witness ==
    /\ PgTextEscaped
    /\ values[1].s = <<"a", "'", "0">>
    /\ escCall.out = <<"e", "'", "a", "'", "'", "0", "'">>

----------------------------------------------------------------------------
(* Claims about identifiers (SpecEscape).                                  *)

IdQuote(d) == IF d = "mysql" THEN "BT" ELSE "\""

\* The text between identifier quotes, each quote in it doubled and, when
\* qualified names are allowed, each dot turned into quote, dot, quote.
QuotedId(text, q, forbidQualified) ==
    <<q>> \o Flatten([i \in 1..Len(text) |->
                 IF text[i] = q THEN <<q, q>>
                 ELSE IF text[i] = "." /\ ~forbidQualified THEN <<q, ".", q>>
                 ELSE <<text[i]>>]) \o <<q>>

\* The elements of a sequence that are no sequences, those of nested
\* sequences in their place.
RECURSIVE Leaves(_)
Leaves(series) ==
    IF series = <<>> THEN <<>>
    ELSE (IF IsSeries(series[1]) THEN Leaves(series[1].elems) ELSE <<series[1]>>)
            \o Leaves(Drop(series, 1))

\* escapeId was called, with a quoted identifier and not a u&"..." one asked
\* for, on a value that holds no fragment.
IdEscaped ==
    /\ escCall.fn = "escapeId"
    /\ ~options.unicode
    /\ ~HasFragment(values[1])

\* C21 (SpecEscape): escapeId of a value without fragments returns its text
\* between identifier quotes, each quote doubled and each dot, unless
\* forbidQualified is set, turned into quote, dot, quote; for a sequence it
\* returns the identifiers of its elements, those of nested sequences in
\* their place, joined with a comma and a space.
C21_EscapeIdQuotes ==
    IdEscaped =>
        /\ escCall.err = <<>>
        /\ escCall.out =
              IF IsSeries(values[1])
              THEN Join([i \in 1..Len(Leaves(values[1].elems)) |->
                            QuotedId(JsString(Leaves(values[1].elems)[i]), IdQuote(dialect),
                                     options.forbidQualified)],
                        <<",", " ">>)
              ELSE QuotedId(JsString(values[1]), IdQuote(dialect), options.forbidQualified)

\* C21 witness: a text with two quotes and two dots was escaped with
\* qualified names allowed.
C21_Witness ==
    /\ IdEscaped
    /\ dialect = "pg"
    /\ ~options.forbidQualified
    /\ values[1] = VStr(<<"BT", "\"", ".", "BT", "\"", ".">>)
    /\ escCall.out = <<"\"", "BT", "\"", "\"", "\"", ".", "\"", "BT", "\"", "\"",
                       "\"", ".", "\"", "\"">>

----------------------------------------------------------------------------
(* Claims about fragments used as identifiers (SpecEscape).                *)

\* The position behind the quote that closes an identifier whose body
\* starts at position i, n parts of the body being read: a part is a
\* character that is no quote, a doubled quote, or, in a u&"..." identifier,
\* a backslash with the character behind it.  0 if there is no such quote or
\* the body is empty.
RECURSIVE IdBodyEnd(_, _, _, _, _)
IdBodyEnd(text, i, q, esc, n) ==
    IF i > Len(text) THEN 0
    ELSE IF text[i] = q
    THEN IF i + 1 <= Len(text) /\ text[i + 1] = q THEN IdBodyEnd(text, i + 2, q, esc, n + 1)
         ELSE IF n > 0 THEN i + 1 ELSE 0
    ELSE IF esc /\ text[i] = "\\"
    THEN IF i + 1 <= Len(text) THEN IdBodyEnd(text, i + 2, q, esc, n + 1) ELSE 0
    ELSE IdBodyEnd(text, i + 1, q, esc, n + 1)

\* The position behind the quoted identifier that starts at position i.
IdEnd(text, i, d) ==
    IF i <= Len(text) /\ text[i] = IdQuote(d) THEN IdBodyEnd(text, i + 1, IdQuote(d), FALSE, 0)
    ELSE IF /\ d = "pg"
            /\ i + 2 <= Len(text)
            /\ text[i] \in {"u", "U"}
            /\ text[i + 1] = "&"
            /\ text[i + 2] = "\""
    THEN IdBodyEnd(text, i + 3, "\"", TRUE, 0)
    ELSE 0

\* The text from position i on is one quoted identifier of the dialect or,
\* if qualified, some of them with a dot between each two.
RECURSIVE WellFormedId(_, _, _, _)
WellFormedId(text, i, d, qualified) ==
    /\ IdEnd(text, i, d) > 0
    /\ \/ IdEnd(text, i, d) = Len(text) + 1
       \/ /\ qualified
          /\ IdEnd(text, i, d) < Len(text)
          /\ text[IdEnd(text, i, d)] = "."
          /\ WellFormedId(text, IdEnd(text, i, d) + 1, d, qualified)

\* A fragment was passed to escapeId, or to escapeDelimited for a slot
\* inside an identifier quote.
FragmentAsId ==
    /\ values[1].t = "frag"
    /\ \/ escCall.fn = "escapeId"
       \/ /\ escCall.fn = "escapeDelimited"
          /\ delimiters[1] \in {<<"BT">>, <<"\"">>, <<"u", "&", "\"">>}
          /\ dialect = "mysql" <=> delimiters[1] = <<"BT">>

\* The content without the delimiter it opens with and the quote it ends
\* with: what a slot that stands between these two takes.
WithoutOuterQuotes(text) ==
    SubSeq(text, (IF text[1] \in {"u", "U"} THEN 4 ELSE 2), Len(text) - 1)

QualifiedShapes ==
    { <<"BT", "a", "BT", ".", "BT", "b", "BT">>, <<"\"", "a", "\"", ".", "\"", "b", "\"">> }

\* C22 (SpecEscape): a fragment used as an identifier is let through only
\* when its content is one quoted identifier of the dialect or, unless
\* forbidQualified is set, a dot-joined chain of them: escapeId then
\* returns the content as it is, and a slot inside an identifier quote the
\* content without its outer quotes; otherwise the call throws an error
\* that holds the content.  The two-part shape is turned down with
\* forbidQualified and let through without it.
C22_FragmentAsIdentifier ==
    FragmentAsId =>
        /\ escCall.err = <<>> =>
              /\ WellFormedId(values[1].s, 1, dialect, ~options.forbidQualified)
              /\ escCall.out = IF escCall.fn = "escapeId" THEN values[1].s
                               ELSE WithoutOuterQuotes(values[1].s)
        /\ escCall.err # <<>> =>
              /\ escCall.err[1] = "Expected id, got "
              /\ Drop(escCall.err, 1) = values[1].s
        /\ ~WellFormedId(values[1].s, 1, dialect, ~options.forbidQualified)
              => escCall.err # <<>>
        /\ (values[1].s \in QualifiedShapes /\ values[1].s[1] = IdQuote(dialect))
              => (escCall.err # <<>> <=> options.forbidQualified)

\* C22 witness: the two-part shape was turned down with forbidQualified
\* set.
C22_Witness ==
    /\ FragmentAsId
    /\ escCall.fn = "escapeId"
    /\ values[1].s \in QualifiedShapes
    /\ values[1].s[1] = IdQuote(dialect)
    /\ options.forbidQualified
    /\ escCall.err = <<"Expected id, got ">> \o values[1].s

----------------------------------------------------------------------------
(* C23: a trusted fragment in each kind of slot.                           *)

EndsWith(s, p) == Len(p) <= Len(s) /\ SubSeq(s, Len(s) - Len(p) + 1, Len(s)) = p

\* escape was called with a fragment, with a sequence whose last element is
\* a fragment, or with a mapping whose last value is one, the mapping not
\* being stringified.
FragmentFreeStanding ==
    /\ escCall.fn = "escape"
    /\ \/ values[1].t = "frag"
       \/ /\ values[1].t \in {"series", "obj"}
          /\ values[1].t = "obj" => ~options.stringifyObjects
          /\ values[1].elems # <<>>
          /\ \/ Last(values[1].elems).t = "frag"
             \/ /\ Last(values[1].elems).t = "prop"
                /\ Last(values[1].elems).elems[1].t = "frag"

\* The fragment FragmentFreeStanding is about.
FreeStandingFragment ==
    IF values[1].t = "frag" THEN values[1]
    ELSE IF Last(values[1].elems).t = "frag" THEN Last(values[1].elems)
    ELSE Last(values[1].elems).elems[1]

\* The text the output ends with when the fragment is put in as it is.
FreeStandingTail ==
    CASE values[1].t = "frag" -> values[1].s
      [] values[1].t = "series" -> <<",", " ">> \o FreeStandingFragment.s
      [] OTHER -> <<" ", "=", " ">> \o FreeStandingFragment.s

FragmentVerbatimFreeStanding ==
    FragmentFreeStanding =>
        /\ escCall.err = <<>>
        /\ EndsWith(escCall.out, FreeStandingTail)
        /\ values[1].t = "frag" => escCall.out = values[1].s

FragmentDelimited == escCall.fn = "escapeDelimited" /\ values[1].t = "frag"

IdContexts == {<<"BT">>, <<"\"">>, <<"u", "&", "\"">>}

\* The delimiter opens a string of the dialect (a double quote opens a
\* string in MySQL and an identifier in Postgres).
InStringContext ==
    IF dialect = "mysql" THEN delimiters[1] \in {<<"'">>, <<"\"">>}
    ELSE delimiters[1] \in {<<"'">>, <<"b", "'">>, <<"x", "'">>, <<"e", "'">>, <<"e">>,
                            <<"u", "&", "'">>}

\* C23 as stated (SpecEscape): a fragment comes out as its content,
\* unchanged, whatever the slot: escape returns it at top level, as the
\* element of a sequence and as the value of a mapping, and escapeDelimited
\* returns it for every delimiter that opens a string, an identifier or a
\* dollar quote.
C23_FragmentAlwaysVerbatim ==
    /\ FragmentVerbatimFreeStanding
    /\ (FragmentDelimited /\ (InStringContext \/ InDollarContext \/ delimiters[1] \in IdContexts))
          => (escCall.err = <<>> /\ escCall.out = values[1].s)

\* C23 as the code has it (SpecEscape): a free-standing fragment (top
\* level, element of a sequence, value of a mapping) comes out as its
\* content, unchanged.  Inside a string the content is escaped as a string
\* of the same text is; inside a dollar quote it comes out unchanged or
\* the call throws "Cannot embed"; inside an identifier quote it comes out
\* without its outer quotes or the call throws "Expected id".
C23_FragmentVerbatimWhenFreeStanding ==
    /\ FragmentVerbatimFreeStanding
    /\ (FragmentDelimited /\ InStringContext) =>
          /\ escCall.err = <<>>
          /\ escCall.out = escapeDelimited(dialect, VStr(values[1].s), delimiters[1],
                                           options.forbidQualified).out
    /\ (FragmentDelimited /\ InDollarContext) =>
          \/ escCall.err = <<>> /\ escCall.out = values[1].s
          \/ escCall.err # <<>> /\ escCall.err[1] = "Cannot embed "
    /\ (FragmentDelimited /\ delimiters[1] \in IdContexts /\ ~InStringContext) =>
          \/ escCall.err = <<>> /\ escCall.out = WithoutOuterQuotes(values[1].s)
          \/ escCall.err # <<>> /\ escCall.err[1] = "Expected id, got "

\* C23 witness: a fragment with a quote and a backslash was escaped, not
\* put in unchanged, by a slot inside a MySQL string.
C23_Witness ==
    /\ FragmentDelimited
    /\ dialect = "mysql"
    /\ delimiters[1] = <<"'">>
    /\ values[1].s = <<"a", "'", "\\">>
    /\ escCall.out = <<"a", "\\", "'", "\\", "\\">>

----------------------------------------------------------------------------
(* C24: free-standing escape of a sequence.                                *)

\* The list the claim describes: the elements joined with ", ", a sequence
\* among them as its own list, in parentheses when it is an element of the
\* outermost sequence (inner = FALSE) or when again is set, and a mapping
\* as the quoted string of its text conversion.
RECURSIVE GroupedList(_, _, _, _)
GroupedList(d, elems, inner, again) ==
    Join([i \in 1..Len(elems) |->
             IF IsSeries(elems[i])
             THEN IF ~inner \/ again
                  THEN <<"(">> \o GroupedList(d, elems[i].elems, TRUE, again) \o <<")">>
                  ELSE GroupedList(d, elems[i].elems, TRUE, again)
             ELSE IF elems[i].t = "obj" THEN escapeString(d, VStr(toString(elems[i])))
             ELSE Escape(d, elems[i], TRUE, NoTimeZone)],
         <<",", " ">>)

SeriesEscaped == escCall.fn = "escape" /\ values[1].t = "series"

\* C24 as stated (SpecEscape): escape of a sequence is the escaped text of
\* its elements joined with ", ", an element that is a sequence being its
\* own list in parentheses, one level deep only: a sequence inside such an
\* inner sequence is listed without parentheses; a mapping inside a
\* sequence is the quoted string of its text conversion.
C24_SeriesGroupedOneLevel ==
    SeriesEscaped =>
        (escCall.err = <<>> /\ escCall.out = GroupedList(dialect, values[1].elems, FALSE, FALSE))

\* C24 as the code has it (SpecEscape): the same, with a sequence at every
\* depth put in parentheses inside the sequence that holds it.
C24_SeriesGroupedAtEveryDepth ==
    SeriesEscaped =>
        (escCall.err = <<>> /\ escCall.out = GroupedList(dialect, values[1].elems, FALSE, TRUE))

\* C24 witness: a sequence inside a sequence inside a sequence was escaped,
\* and its list came out in parentheses of its own.
C24_Witness ==
    /\ SeriesEscaped
    /\ \E i \in 1..Len(values[1].elems) :
          /\ IsSeries(values[1].elems[i])
          /\ \E j \in 1..Len(values[1].elems[i].elems) : IsSeries(values[1].elems[i].elems[j])
    /\ EndsWith(escCall.out, <<"(", "1", ",", " ", "N", "U", "L", "L", ")", ")">>)

----------------------------------------------------------------------------
(* C25: free-standing escape of a plain object.                            *)

\* What the claim says one property gives: nothing for a function, and
\* otherwise the escaped key, " = " and the escaped value, a mapping as
\* value being the quoted string of its text conversion.
PairOf(d, prop) ==
    IF prop.elems[1].t = "fn" THEN <<>>
    ELSE <<escapeId(d, VStr(prop.s)) \o <<" ", "=", " ">>
             \o (IF prop.elems[1].t = "obj" THEN escapeString(d, VStr(toString(prop.elems[1])))
                 ELSE Escape(d, prop.elems[1], TRUE, NoTimeZone))>>

\* The pairs of the properties, in property order.
RECURSIVE PairsOf(_, _)
PairsOf(d, props) ==
    IF props = <<>> THEN <<>> ELSE PairOf(d, props[1]) \o PairsOf(d, Drop(props, 1))

ObjectEscaped == escCall.fn = "escape" /\ values[1].t = "obj"

\* C25 (SpecEscape): escape of a plain object with stringifyObjects unset
\* is one "escapeId(key) = escape(value)" pair for each property whose
\* value is not a function, joined with ", " in property order, a mapping
\* as value being the quoted string of its text conversion; with
\* stringifyObjects set it is the quoted string of the text conversion of
\* the object itself.
C25_ObjectToPairs ==
    ObjectEscaped =>
        /\ escCall.err = <<>>
        /\ escCall.out = IF options.stringifyObjects
                         THEN escapeString(dialect, VStr(toString(values[1])))
                         ELSE Join(PairsOf(dialect, values[1].elems), <<",", " ">>)

\* C25 witness: an object whose first property is a function and whose last
\* is an object with a property of its own came out as two pairs, the
\* second with a quoted string.
C25_Witness ==
    /\ ObjectEscaped
    /\ ~options.stringifyObjects
    /\ dialect = "mysql"
    /\ Len(values[1].elems) = 4
    /\ escCall.out = <<"BT", "a", "BT", " ", "=", " ", "'", "b", "'", ",", " ",
                       "BT", "n", "BT", " ", "=", " ", "'", "y", "\\", "'", "'">>

----------------------------------------------------------------------------
(* C26: the delimiters Postgres escapeDelimited knows.                     *)

RecognisedDelimiter(delimiter) ==
    \/ delimiter \in {<<"'">>, <<"\"">>, <<"u", "&", "\"">>, <<"u", "&", "'">>, <<"b", "'">>,
                      <<"x", "'">>, <<"e", "'">>, <<"e">>}
    \/ DollarQuoteForm(delimiter)

PgDelimited == dialect = "pg" /\ escCall.fn = "escapeDelimited"

\* C26 (SpecEscape): Postgres escapeDelimited throws "Cannot escape with"
\* and the delimiter for every delimiter outside the set it knows, the
\* comment delimiters included, and for no delimiter inside the set.
C26_UnknownDelimiterThrows ==
    PgDelimited =>
        IF RecognisedDelimiter(delimiters[1])
        THEN escCall.err = <<>> \/ escCall.err[1] # "Cannot escape with "
        ELSE escCall.err = <<"Cannot escape with ">> \o delimiters[1]

\* C26 witness: a slot inside a block comment was turned down.
C26_Witness ==
    /\ PgDelimited
    /\ delimiters[1] = <<"/", "*">>
    /\ escCall.err = <<"Cannot escape with ", "/", "*">>

----------------------------------------------------------------------------
(* C27: dates.                                                             *)

\* Rows <<days, ms, offset, year, month, day, hour, minute, second,
\* millis>>: the calendar fields, in UTC, of the instant offset minutes
\* after millisecond ms of day days after 1970-01-01.
Calendar ==
    { <<15467, 42123002, 0, 2012, 5, 7, 11, 42, 3, 2>>,
      <<15467, 42123002, 60, 2012, 5, 7, 12, 42, 3, 2>>,
      <<15467, 42123002, 120, 2012, 5, 7, 13, 42, 3, 2>>,
      <<15467, 42123002, 0 - 300, 2012, 5, 7, 6, 42, 3, 2>>,
      <<15467, 42123002, 330, 2012, 5, 7, 17, 12, 3, 2>>,
      <<15467, 42123002, 0 - 570, 2012, 5, 7, 2, 12, 3, 2>>,
      <<15467, 42123002, 0 - 480, 2012, 5, 7, 3, 42, 3, 2>>,
      <<15467, 42123002, 100, 2012, 5, 7, 13, 22, 3, 2>>,
      <<15467, 42123002, 0 - 100, 2012, 5, 7, 10, 2, 3, 2>>,
      <<10957, 0, 0, 2000, 1, 1, 0, 0, 0, 0>>,
      <<10957, 0, 60, 2000, 1, 1, 1, 0, 0, 0>>,
      <<10957, 0, 120, 2000, 1, 1, 2, 0, 0, 0>>,
      <<10957, 0, 0 - 300, 1999, 12, 31, 19, 0, 0, 0>>,
      <<10957, 0, 330, 2000, 1, 1, 5, 30, 0, 0>>,
      <<10957, 0, 0 - 570, 1999, 12, 31, 14, 30, 0, 0>>,
      <<10957, 0, 0 - 480, 1999, 12, 31, 16, 0, 0, 0>>,
      <<10957, 0, 100, 2000, 1, 1, 1, 40, 0, 0>>,
      <<10957, 0, 0 - 100, 1999, 12, 31, 22, 20, 0, 0>>,
      <<10956, 86399999, 0, 1999, 12, 31, 23, 59, 59, 999>>,
      <<10956, 86399999, 60, 2000, 1, 1, 0, 59, 59, 999>>,
      <<10956, 86399999, 120, 2000, 1, 1, 1, 59, 59, 999>>,
      <<10956, 86399999, 0 - 300, 1999, 12, 31, 18, 59, 59, 999>>,
      <<10956, 86399999, 330, 2000, 1, 1, 5, 29, 59, 999>>,
      <<10956, 86399999, 0 - 570, 1999, 12, 31, 14, 29, 59, 999>>,
      <<10956, 86399999, 0 - 480, 1999, 12, 31, 15, 59, 59, 999>>,
      <<10956, 86399999, 100, 2000, 1, 1, 1, 39, 59, 999>>,
      <<10956, 86399999, 0 - 100, 1999, 12, 31, 22, 19, 59, 999>>,
      <<19782, 73800000, 0, 2024, 2, 29, 20, 30, 0, 0>>,
      <<19782, 73800000, 60, 2024, 2, 29, 21, 30, 0, 0>>,
      <<19782, 73800000, 120, 2024, 2, 29, 22, 30, 0, 0>>,
      <<19782, 73800000, 0 - 300, 2024, 2, 29, 15, 30, 0, 0>>,
      <<19782, 73800000, 330, 2024, 3, 1, 2, 0, 0, 0>>,
      <<19782, 73800000, 0 - 570, 2024, 2, 29, 11, 0, 0, 0>>,
      <<19782, 73800000, 0 - 480, 2024, 2, 29, 12, 30, 0, 0>>,
      <<19782, 73800000, 100, 2024, 2, 29, 22, 10, 0, 0>>,
      <<19782, 73800000, 0 - 100, 2024, 2, 29, 18, 50, 0, 0>>,
      <<19417, 7200005, 0, 2023, 3, 1, 2, 0, 0, 5>>,
      <<19417, 7200005, 60, 2023, 3, 1, 3, 0, 0, 5>>,
      <<19417, 7200005, 120, 2023, 3, 1, 4, 0, 0, 5>>,
      <<19417, 7200005, 0 - 300, 2023, 2, 28, 21, 0, 0, 5>>,
      <<19417, 7200005, 330, 2023, 3, 1, 7, 30, 0, 5>>,
      <<19417, 7200005, 0 - 570, 2023, 2, 28, 16, 30, 0, 5>>,
      <<19417, 7200005, 0 - 480, 2023, 2, 28, 18, 0, 0, 5>>,
      <<19417, 7200005, 100, 2023, 3, 1, 3, 40, 0, 5>>,
      <<19417, 7200005, 0 - 100, 2023, 3, 1, 0, 20, 0, 5>>,
      <<0 - 358878, 14582001, 0, 987, 6, 5, 4, 3, 2, 1>>,
      <<0 - 358878, 14582001, 60, 987, 6, 5, 5, 3, 2, 1>>,
      <<0 - 358878, 14582001, 120, 987, 6, 5, 6, 3, 2, 1>>,
      <<0 - 358878, 14582001, 0 - 300, 987, 6, 4, 23, 3, 2, 1>>,
      <<0 - 358878, 14582001, 330, 987, 6, 5, 9, 33, 2, 1>>,
      <<0 - 358878, 14582001, 0 - 570, 987, 6, 4, 18, 33, 2, 1>>,
      <<0 - 358878, 14582001, 0 - 480, 987, 6, 4, 20, 3, 2, 1>>,
      <<0 - 358878, 14582001, 100, 987, 6, 5, 5, 43, 2, 1>>,
      <<0 - 358878, 14582001, 0 - 100, 987, 6, 5, 2, 23, 2, 1>>,
      <<0, 0, 0, 1970, 1, 1, 0, 0, 0, 0>>,
      <<0, 0, 60, 1970, 1, 1, 1, 0, 0, 0>>,
      <<0, 0, 120, 1970, 1, 1, 2, 0, 0, 0>>,
      <<0, 0, 0 - 300, 1969, 12, 31, 19, 0, 0, 0>>,
      <<0, 0, 330, 1970, 1, 1, 5, 30, 0, 0>>,
      <<0, 0, 0 - 570, 1969, 12, 31, 14, 30, 0, 0>>,
      <<0, 0, 0 - 480, 1969, 12, 31, 16, 0, 0, 0>>,
      <<0, 0, 100, 1970, 1, 1, 1, 40, 0, 0>>,
      <<0, 0, 0 - 100, 1969, 12, 31, 22, 20, 0, 0>> }

CalendarOf(date, offset) ==
    CHOOSE row \in Calendar : row[1] = date.n /\ row[2] = date.ms /\ row[3] = offset

TwoDigits(n) == <<HexDigits[(n \div 10) + 1], HexDigits[(n % 10) + 1]>>

\* 'YYYY-MM-DD HH:MM:SS.mmm' for a row of Calendar.
Stamp(row) ==
    <<"'">> \o TwoDigits(row[4] \div 100) \o TwoDigits(row[4] % 100) \o <<"-">>
        \o TwoDigits(row[5]) \o <<"-">> \o TwoDigits(row[6]) \o <<" ">>
        \o TwoDigits(row[7]) \o <<":">> \o TwoDigits(row[8]) \o <<":">> \o TwoDigits(row[9])
        \o <<".", HexDigits[(row[10] \div 100) + 1]>> \o TwoDigits(row[10] % 100) \o <<"'">>

HoursMinutes(hh, mm) ==
    60 * (10 * DigitValue(hh[1]) + DigitValue(hh[2])) + 10 * DigitValue(mm[1]) + DigitValue(mm[2])

AllDigits(text) == \A i \in 1..Len(text) : text[i] \in Digits

\* The offset in minutes the claim gives a zone string: that of +HH, +HHMM
\* and +HH:MM (and of the same with -), and 0 for Z and every other.
ZoneOffset(tz) ==
    IF Len(tz) \in {3, 5, 6} /\ tz[1] \in {"+", "-"} /\ AllDigits(SubSeq(tz, 2, 3))
    THEN LET rest == Drop(tz, 3)
             mm == IF Len(rest) = 3 /\ rest[1] = ":" THEN Drop(rest, 1) ELSE rest
         IN  IF Len(mm) \in {0, 2} /\ AllDigits(mm)
             THEN (IF tz[1] = "-" THEN 0 - 1 ELSE 1)
                      * HoursMinutes(SubSeq(tz, 2, 3), IF mm = <<>> THEN <<"0", "0">> ELSE mm)
             ELSE 0
    ELSE 0

DateEscaped == escCall.fn = "escape" /\ values[1].t = "date"

\* C27 (SpecDate): a date is rendered as the quoted text
\* 'YYYY-MM-DD HH:MM:SS.mmm', zero padded, of the UTC fields of its instant
\* shifted by the minutes of the zone: none for Z, sign x (60 x HH + MM)
\* for +HH, +HHMM and +HH:MM, none for a zone string of no such form, and
\* the offset of the host's zone for "local" and for no zone; an invalid
\* date is rendered as NULL.
C27_DatesInZone ==
    DateEscaped =>
        /\ escCall.err = <<>>
        /\ escCall.out =
              IF ~values[1].valid THEN <<"N", "U", "L", "L">>
              ELSE IF options.timeZone \in {NoTimeZone, <<"l", "o", "c", "a", "l">>}
              THEN Stamp(CalendarOf(values[1], values[1].zone))
              ELSE Stamp(CalendarOf(values[1], ZoneOffset(options.timeZone)))

----------------------------------------------------------------------------
(* C28: binary blobs.                                                      *)

\* The two lowercase hexadecimal digits of each byte.
HexOfBytes(bytes) ==
    Flatten([i \in 1..Len(bytes) |->
        <<HexDigits[(CharCode(bytes[i]) \div 16) + 1], HexDigits[(CharCode(bytes[i]) % 16) + 1]>>])

Bit(n, k) == IF (n \div k) % 2 = 1 THEN "1" ELSE "0"

\* The eight binary digits of each byte: four for each hexadecimal digit.
BitsOfBytes(bytes) ==
    Flatten([i \in 1..Len(bytes) |->
        [j \in 1..8 |-> Bit(CharCode(bytes[i]), 2 ^ (8 - j))]])

BlobEscaped == values[1].t = "buf" /\ escCall.fn \in {"escape", "escapeDelimited"}

\* C28 (SpecEscape): a blob is rendered free-standing as X'...' around the
\* lowercase hexadecimal digits of its bytes, whatever toString method it
\* has; in a Postgres x'...' slot as the hexadecimal digits alone; in a
\* Postgres b'...' slot as four binary digits for each hexadecimal digit;
\* and in every other string slot and in a dollar quote as the string of
\* one character per byte is rendered there.
C28_BlobForms ==
    BlobEscaped =>
        /\ escCall.fn = "escape" =>
              /\ escCall.err = <<>>
              /\ escCall.out = <<"X", "'">> \o HexOfBytes(values[1].s) \o <<"'">>
        /\ (escCall.fn = "escapeDelimited" /\ dialect = "pg" /\ delimiters[1] = <<"x", "'">>) =>
              escCall.err = <<>> /\ escCall.out = HexOfBytes(values[1].s)
        /\ (escCall.fn = "escapeDelimited" /\ dialect = "pg" /\ delimiters[1] = <<"b", "'">>) =>
              escCall.err = <<>> /\ escCall.out = BitsOfBytes(values[1].s)
        /\ (/\ escCall.fn = "escapeDelimited"
            /\ InStringContext \/ InDollarContext
            /\ dialect = "pg" => delimiters[1] \notin {<<"x", "'">>, <<"b", "'">>}) =>
              /\ escCall.out = escapeDelimited(dialect, VStr(values[1].s), delimiters[1],
                                               options.forbidQualified).out
              /\ escCall.err = escapeDelimited(dialect, VStr(values[1].s), delimiters[1],
                                               options.forbidQualified).err

\* C28 witness: a blob with a toString method of its own came out as the
\* binary digits of its three bytes in a Postgres b'...' slot.
C28_Witness ==
    /\ BlobEscaped
    /\ OwnToString(values[1]) # <<>>
    /\ escCall.fn = "escapeDelimited"
    /\ dialect = "pg"
    /\ delimiters[1] = <<"b", "'">>
    /\ escCall.out = <<"0", "1", "1", "0", "0", "0", "0", "1",
                       "0", "0", "1", "0", "0", "1", "1", "1",
                       "0", "0", "1", "0", "0", "1", "0", "0">>

----------------------------------------------------------------------------
(* C29: null, undefined, booleans and numbers.                             *)

\* What the claim gives for the values of EscapeValues that are null,
\* undefined, a boolean or a number.
PlainText(v) ==
    CASE v = VNull \/ v = VUndefined -> <<"N", "U", "L", "L">>
      [] v = VBool(TRUE) -> <<"t", "r", "u", "e">>
      [] v = VBool(FALSE) -> <<"f", "a", "l", "s", "e">>
      [] v = VNumber("NaN") -> <<"N", "a", "N">>
      [] v = VNumber("Infinity") -> <<"I", "n", "f", "i", "n", "i", "t", "y">>
      [] v = VNumber("-Infinity") -> <<"-", "I", "n", "f", "i", "n", "i", "t", "y">>
      [] v = VNumber("-0") -> <<"0">>
      [] v = VNum(0 - 1) -> <<"-", "1">>
      [] v = VNum(10) -> <<"1", "0">>

PlainEscaped == escCall.fn = "escape" /\ values[1].t \in {"null", "undefined", "bool", "num"}

\* C29 (SpecEscape): escape renders null and undefined as NULL, a boolean
\* as true or false and a number as its text without quotes, NaN, Infinity
\* and -Infinity as these words and negative zero as 0, in MySQL and in
\* Postgres alike.
C29_PlainValues ==
    PlainEscaped => (escCall.err = <<>> /\ escCall.out = PlainText(values[1]))

\* C29 witness: negative zero came out as 0 from the Postgres escaper.
C29_Witness ==
    /\ PlainEscaped
    /\ dialect = "pg"
    /\ values[1] = VNumber("-0")
    /\ escCall.out = <<"0">>

----------------------------------------------------------------------------
(* C30: the context after an e'...' string.                                *)

\* The Postgres lexer accepted the latest chunk, and no call before it
\* threw.
PgChunkAccepted ==
    /\ dialect = "pg"
    /\ fed # <<>>
    /\ NoNull(fed)
    /\ thrown = <<>>

\* Values to interpolate in the context after an e'...' string.
ContinuationValues == { VStr(<<"x", "'">>), VStr(<<"\\", "\n">>), VStr(<<>>), VNum(10) }

\* C30 (SpecLexer): once an e'...' string has closed, the Postgres lexer
\* returns the context e for as long as the literal text after it, over all
\* chunks, is white space and complete comments; a quote there opens an
\* e'...' string again; after any other character the context is none or
\* that of the construct the text then opens, never e.  A value
\* interpolated in the context e is a quote, the text an e'...' slot gives
\* for it, and a quote.
C30_EscapeContinuation ==
    /\ PgChunkAccepted =>
          /\ (RefRead(dialect, fed).open = <<>> /\ RefRead(dialect, fed).afterE)
                => ret = EscContinuation
          /\ (RefRead(dialect, fed).open = <<>> /\ ~RefRead(dialect, fed).afterE)
                => ret = <<>>
          /\ RefRead(dialect, fed).open \notin {<<>>} \cup RefComments
                => ret = RefRead(dialect, fed).open
    /\ \A v \in ContinuationValues :
          /\ PgEscapeDelimited(v, EscContinuation, FALSE).err = <<>>
          /\ PgEscapeDelimited(v, EscContinuation, FALSE).out
                = <<"'">> \o PgEscapeDelimited(v, <<"e", "'">>, FALSE).out \o <<"'">>


----------------------------------------------------------------------------
(* Claims about scanning single chunks (SpecScan).                         *)

\* The reference reading of all chunks fed so far.
ScanRead == RefRead(dialect, fed)

\* No chunk fed so far holds two dashes in a row.
NoDashDash == \A i \in 1..Len(fed) : ~Contains(fed[i], <<"-", "-">>)

\* The latest call was not one the Postgres lexer refuses for an ambiguous
\* string continuation before it reads the chunk.
NotRefused == ~(LexerBefore.continuationAmbiguity /\ LexerBefore.chunkIndex >= 1)

\* The latest call was lexer(chunk) on a Postgres instance that had not
\* thrown, and in the chunks fed so far nothing but block comments has
\* been opened.
BlockCommentsOnly ==
    /\ dialect = "pg"
    /\ fed # <<>>
    /\ LexerBefore.errorMessage = <<>>
    /\ NotRefused
    /\ NoDashDash
    /\ ~ScanRead.quoted

\* The latest chunk holds text of a block comment: at some place before its
\* end the reading is inside the comment.
CommentTextRead ==
    \E k \in 0..(Len(Last(fed)) - 1) :
        RefChunk(dialect, RefRead(dialect, FedChunks), Take(Last(fed), k), 1).open
            = <<"/", "*">>

\* C31 (SpecScan): in text that opens nothing but block comments, the
\* Postgres lexer counts a nested /* up and a */ down: when it returns, the
\* context is None if the depth of the reading is zero and /* if not; it
\* throws only while the depth is above zero, and does throw 'Unterminated
\* block comment' when the chunk ends at a depth above zero after comment
\* text.  Quotes inside the comment open nothing.
C31_BlockCommentsNest ==
    BlockCommentsOnly =>
        /\ thrown = <<>> => (ret = ScanRead.open /\ (ret = <<>> <=> ScanRead.depth = 0))
        /\ thrown # <<>> =>
              (ScanRead.depth > 0 /\ thrown[1] = "Unterminated block comment: /*")
        /\ (ScanRead.depth > 0 /\ CommentTextRead) => thrown # <<>>

\* C31 witness: a comment nested two deep that holds both quotes has been
\* closed in the second chunk and the lexer has returned None.
C31_Witness ==
    /\ BlockCommentsOnly
    /\ Len(fed) = 2
    /\ Last(fed) = <<"/", "*", "\"", "/", "*", "'", "*", "/", "*", "/", "a">>
    /\ thrown = <<>>
    /\ ret = <<>>


\* Where the first -- of the latest chunk is, and the text behind it.
DashDashAt == IndexOf(Last(fed), <<"-", "-">>)
AfterDashes == Drop(Last(fed), DashDashAt + 1)

\* The latest call was lexer(chunk) on an instance at top level that had
\* not thrown, and the chunk holds -- behind text that opens nothing.
TopLevelDashDash ==
    /\ fed # <<>>
    /\ LexerBefore.errorMessage = <<>>
    /\ LexerBefore.delimiter = <<>>
    /\ NotRefused
    /\ DashDashAt > 0
    /\ \A i \in 1..(DashDashAt - 1) : Last(fed)[i] \in {"a", "1", " ", "\n"}

\* What the same instance would have done with another chunk in the place
\* of the latest one.
Outcome(text) == LexerCall(dialect, LexerBefore, text)

\* The latest call returned what it would have returned for text, or threw
\* as it would have thrown for text.
SameOutcome(text) ==
    /\ Outcome(text).ret = ret
    /\ (Outcome(text).err = <<>>) <=> (thrown = <<>>)

\* C32 (SpecScan): at top level the MySQL lexer reads -- as inert text unless
\* a whitespace character follows it (the rest of the chunk is read as if
\* the first dash were not there, and in 1--1' the quote opens a string),
\* and as a comment up to the line break if one does; the Postgres lexer
\* reads every -- as the start of a line comment: the text up to the line
\* break opens nothing, and 'Unterminated line comment' is thrown when text
\* but no line break follows.
C32_DashDash ==
    TopLevelDashDash =>
        /\ (dialect = "mysql" /\ (AfterDashes = <<>> \/ AfterDashes[1] \notin WSP)) =>
              SameOutcome(Drop(Last(fed), DashDashAt))
        /\ (dialect = "mysql" /\ AfterDashes # <<>> /\ AfterDashes[1] \in WSP) =>
              IF FirstNewline(AfterDashes, 1) = 0 THEN thrown # <<>>
              ELSE SameOutcome(Drop(AfterDashes, FirstNewline(AfterDashes, 1)))
        /\ (dialect = "mysql" /\ Last(fed) = <<"1", "-", "-", "1", "'">>) =>
              (thrown = <<>> /\ ret = <<"'">>)
        /\ (dialect = "pg" /\ AfterDashes = <<>>) => (thrown = <<>> /\ ret = <<"-", "-">>)
        /\ (dialect = "pg" /\ AfterDashes # <<>>) =>
              IF FirstNewline(AfterDashes, 1) = 0
              THEN thrown # <<>> /\ thrown[1] = "Unterminated line comment: --"
              ELSE SameOutcome(Drop(AfterDashes, FirstNewline(AfterDashes, 1)))

\* C32 witness: the MySQL lexer has read 1--1' as its second chunk at top
\* level and returned the quote as the context.
C32_Witness ==
    /\ TopLevelDashDash
    /\ dialect = "mysql"
    /\ Len(fed) = 2
    /\ Last(fed) = <<"1", "-", "-", "1", "'">>
    /\ ret = <<"'">>


\* The contexts of strings and quoted identifiers, and those among them in
\* which the claims take a backslash for an escape character.
QuoteContexts ==
    IF dialect = "mysql" THEN {<<"'">>, <<"\"">>, <<"BT">>}
    ELSE {<<"'">>, <<"\"">>, <<"b", "'">>, <<"x", "'">>, <<"e", "'">>, <<"u", "&", "'">>,
          <<"u", "&", "\"">>}

BackslashEscapes ==
    dialect = "mysql" \/ LexerBefore.delimiter \in {<<"e", "'">>, <<"u", "&", "'">>, <<"u", "&", "\"">>}

\* The latest call was lexer(chunk) on an instance that had not thrown and
\* was inside a string or a quoted identifier.
FedInQuote ==
    /\ fed # <<>>
    /\ LexerBefore.errorMessage = <<>>
    /\ NotRefused
    /\ LexerBefore.delimiter \in QuoteContexts

\* The latest chunk from its first character other than a on, and the
\* character that closes the construct.
RECURSIVE SkipPlain(_)
SkipPlain(text) == IF text # <<>> /\ text[1] = "a" THEN SkipPlain(Tail(text)) ELSE text
Body == SkipPlain(Last(fed))
Quote == Last(LexerBefore.delimiter)

\* C33 (SpecScan): inside a string or a quoted identifier, behind any run
\* of plain characters, a doubled delimiter is passed over in every
\* construct, a backslash with the character behind it is passed over in
\* the MySQL constructs and in Postgres e'...', u&'...' and u&"...", and a
\* backslash alone is passed over as a plain character in Postgres '...',
\* "...", b'...' and x'...' (so that \' closes them): the call ends as it
\* would have ended for the rest of the chunk.
C33_EscapeConventions ==
    FedInQuote =>
        /\ (Len(Body) >= 2 /\ Body[1] = Quote /\ Body[2] = Quote) => SameOutcome(Drop(Body, 2))
        /\ (BackslashEscapes /\ Len(Body) >= 2 /\ Body[1] = "\\") => SameOutcome(Drop(Body, 2))
        /\ (~BackslashEscapes /\ Body # <<>> /\ Body[1] = "\\") => SameOutcome(Drop(Body, 1))
        /\ (~BackslashEscapes /\ Body = <<"\\", Quote>>) => (thrown = <<>> /\ ret = <<>>)


\* The reference reading starts the latest chunk where the lexer was.
RefFromLexer ==
    [RefInit EXCEPT !.open = IF LexerBefore.delimiter = EscContinuation THEN <<>>
                             ELSE LexerBefore.delimiter,
                    !.afterE = (LexerBefore.delimiter = EscContinuation),
                    !.depth = IF LexerBefore.delimiter = <<"/", "*">> THEN 1 ELSE 0]

\* How many backslashes end the text, and the latest chunk without the
\* backslashes that end it.
RECURSIVE TrailingBackslashes(_)
TrailingBackslashes(text) ==
    IF text # <<>> /\ Last(text) = "\\"
    THEN 1 + TrailingBackslashes(Take(text, Len(text) - 1)) ELSE 0

BeforeBackslashes == Take(Last(fed), Len(Last(fed)) - TrailingBackslashes(Last(fed)))

\* The constructs in which backslash is an escape character.
EscConstructs ==
    IF dialect = "mysql" THEN {<<"'">>, <<"\"">>, <<"BT">>}
    ELSE {<<"e", "'">>, <<"u", "&", "'">>, <<"u", "&", "\"">>}

\* The latest call was lexer(chunk) on an instance that had not thrown, and
\* the chunk ends with a backslash that escapes nothing yet: an odd number
\* of backslashes, the first of them read inside a construct in which
\* backslash escapes.
LoneBackslashAtEnd ==
    /\ fed # <<>>
    /\ LexerBefore.errorMessage = <<>>
    /\ NotRefused
    /\ TrailingBackslashes(Last(fed)) % 2 = 1
    /\ RefChunk(dialect, RefFromLexer, BeforeBackslashes, 1).open \in EscConstructs

\* C34 (SpecScan): a chunk that ends with a lone backslash inside a MySQL
\* quote or inside Postgres e'...', u&'...' or u&"..." makes the call throw;
\* no context is returned for the slot behind it.
C34_LoneBackslashThrows == LoneBackslashAtEnd => (thrown # <<>> /\ ret = <<>>)

\* C34 witness: the Postgres lexer, inside u&'...' since the chunk before,
\* has thrown for a chunk that is a, backslash.
C34_Witness ==
    /\ LoneBackslashAtEnd
    /\ dialect = "pg"
    /\ LexerBefore.delimiter = <<"u", "&", "'">>
    /\ Last(fed) = <<"a", "\\">>
    /\ thrown # <<>>


----------------------------------------------------------------------------
(* Claims about NUL in Postgres text (SpecEscape).                         *)

\* The text without its NUL characters.
IsNoNul(c) == c # "NUL"
WithoutNul(text) == SelectSeq(text, IsNoNul)

\* A Postgres entry point has returned for a text value that holds NUL.
PgTextWithNul ==
    /\ dialect = "pg"
    /\ escCall.fn \in {"escape", "escapeDelimited"}
    /\ values[1].t = "str"
    /\ "NUL" \in Range(values[1].s)

\* C35 (SpecEscape): Postgres escape of a text value that holds NUL returns
\* the e'...' form of the text without the NUL, and escapeDelimited inside
\* '...', u&'...' or e'...' returns what it returns for the text without
\* the NUL.
C35_PgDropsNul ==
    PgTextWithNul =>
        /\ escCall.fn = "escape" =>
              escCall.out = <<"e", "'">> \o BackslashBody(WithoutNul(values[1].s)) \o <<"'">>
        /\ (escCall.fn = "escapeDelimited"
              /\ delimiters[1] \in {<<"'">>, <<"u", "&", "'">>, <<"e", "'">>}) =>
              escCall.out = escapeDelimited(dialect, VStr(WithoutNul(values[1].s)),
                                            delimiters[1], options.forbidQualified).out


----------------------------------------------------------------------------
(* Claims about comments around slots (SpecComment).                       *)

\* The literal text in front of slot i ends inside an open comment.
SlotInComment(i) == RefRead(dialect, Take(chunks, i)).open \in RefComments

\* C36 (SpecComment): the driver hands out no result for a template in
\* which the literal text in front of some slot ends inside an open line
\* comment or block comment: the lexer or the escaper has thrown.
C36_NoValueInComment ==
    pc = "done" => \A i \in 1..(Len(chunks) - 1) : ~SlotInComment(i)


----------------------------------------------------------------------------
(* Claims about the contexts the Postgres lexer holds (SpecScan).          *)

\* The text values tried in a slot.
SlotTexts == { VStr(<<"x">>), VStr(<<"x", "'">>), VStr(<<"\\", "\"">>) }

\* escapeDelimited does not fail with 'Cannot escape with' for v in context.
CanEscapeWith(v, context) ==
    \/ escapeDelimited("pg", v, context, FALSE).err = <<>>
    \/ escapeDelimited("pg", v, context, FALSE).err[1] # "Cannot escape with "

\* The lexer holds the context of a string, an identifier or a dollar quote.
HoldsQuoteContext ==
    /\ dialect = "pg"
    /\ lexer.delimiter # <<>>
    /\ Last(lexer.delimiter) \in {"'", "\"", "$"}

\* The latest chunk, read at top level, is nothing but the opener of a
\* construct.
OpenerFed(opener) ==
    /\ fed # <<>>
    /\ LexerBefore.errorMessage = <<>>
    /\ LexerBefore.delimiter = <<>>
    /\ NotRefused
    /\ Last(fed) = opener

----------------------------------------------------------------------------
(* Claims about the loops of the lexers (SpecStepsFair).                   *)

\* The length of the text the running or the latest call scans.
ScannedLength == IF fed = <<>> THEN 0 ELSE Len(StringOf(Last(fed)))

\* The passes through loop tests of one call are bounded by the length of
\* its chunk.
StepsBounded == steps <= 2 * ScannedLength + 2

\* What the scanner is in: the delimiter, the loop, the depth of the block
\* comment and the comment of a continuation.
ScanContext == <<lexer.delimiter, loop.at, loop.depth, loop.subdelim>>

\* A pass through a loop test consumes a character, changes the context or
\* ends the call, by a throw or by the return.
Progresses ==
    (pc = "scanning" /\ steps' # steps)
        => \/ Len(unread') < Len(unread)
           \/ ScanContext' # ScanContext
           \/ pc' = "lexer"

\* C38 (SpecStepsFair): every call of the lexer terminates.  Each pass
\* through the test of the top-level loop, of the loop of a block comment
\* and of the outer and the inner loop of an E-continuation consumes at
\* least one character, changes the context or ends the call; the passes of
\* one call are at most twice the length of the chunk plus two; and a call
\* that is scanning returns or throws.
C38_FeedTerminates ==
    /\ []StepsBounded
    /\ [][Progresses]_vars
    /\ (pc = "scanning" ~> pc = "lexer")

\* C38 witness: the call for a comment of depth two and a line comment
\* after a closed e'...' string went through all four loops and returned.
C38_Witness ==
    /\ pc = "lexer"
    /\ dialect = "pg"
    /\ Len(fed) = 1
    /\ Last(fed) = <<"e", "'", "a", "'", "/", "*", "/", "*", "*", "/", "*", "/", "-", "-",
                     "\n", "a">>
    /\ thrown = <<>>
    /\ ret = <<>>
    /\ steps >= 10
====
